---- MODULE Spec2Model ----
(***************************************************************************)
(* CleanStream: the skip generator and its renderers                        *)
(* (utils/skipGenerator.js) and the MCF parser/generator, its timestamp     *)
(* functions and its taxonomy lookup (utils/mcf.js), modelled as state      *)
(* machines whose actions apply the functions of the source to inputs drawn *)
(* from bounded sets; the store of contributed segments in a JSON file      *)
(* (database/jsonStorage.js behind database/repository.js) under the        *)
(* requests of api/routes.js, cli/contribute.js and the subtitles handler;  *)
(* the conversion of stored segments to MCF and back; and voteSegment of    *)
(* database/repository.js on PostgreSQL under concurrent calls.             *)
(*                                                                         *)
(* JavaScript values: a string is a TLA+ string; undefined and null are the *)
(* strings Undefined and Null, which no input string equals; an object is a *)
(* record, an absent property is a field outside the record's DOMAIN; NaN   *)
(* is the number NaN, which the comparisons below treat as JavaScript does. *)
(***************************************************************************)
EXTENDS Integers, Sequences, FiniteSets, TLC

VARIABLES
    pc,          \* position of the modelled calls: which call comes next
    filterData,  \* skipGenerator.js:24, the value bound to filterData
    userConfig,  \* skipGenerator.js:23, the argument userConfig
    pushed,      \* skipGenerator.js:73, the local array skips when the loop ends
    returned,    \* skipGenerator.js:76, the list generateSkips returns
    threw,       \* whether the call ended in an exception
    doc,         \* mcf.js:256, the document given to generateMCF
    mcf,         \* mcf.js:105, the text given to parseMCF
    parsed,      \* mcf.js:105-202, the outcome of parseMCF
    vtt,         \* skipGenerator.js:165, the text generateSkipVTT returns
    json,        \* skipGenerator.js:172, the object generateSkipJSON returns
    stampMs,     \* mcf.js:243, the argument of formatTimestamp
    stampText,   \* mcf.js:249, the text formatTimestamp returns
    stampBack,   \* mcf.js:236, what parseTimestamp returns for that text
    lookupFlag,  \* mcf.js:215, parts[0] of a filter line
    lookupParent, \* mcf.js:216, the parentCategory of the filter
    dataFile,    \* jsonStorage.js (index.js:754), the file DATA_DIR/<imdbId>.json
    clock,       \* the number of requests served so far
    request,     \* the request or command served last
    response,    \* what the last request handler or command answered
    dbSegments,  \* mcf.js:304, the stored segments given to dbToMCFSegments
    imported,    \* mcf.js:338, the list mcfToDBSegments returns
    voteTable,   \* repository.js:198, the rows of prisma.vote
    segmentTable, \* repository.js:219, upvotes and downvotes of prisma.segment
    voteCalls    \* repository.js:190-251, the voteSegment calls in progress

engineVars == <<filterData, userConfig, pushed, returned, threw>>

mcfVars == <<doc, mcf, parsed>>

renderVars == <<vtt, json>>

stampVars == <<stampMs, stampText, stampBack>>

lookupVars == <<lookupFlag, lookupParent>>

storeVars == <<dataFile, clock, request, response>>

convertVars == <<dbSegments, imported>>

voteVars == <<voteTable, segmentTable, voteCalls>>

serviceVars == <<storeVars, convertVars, voteVars>>

vars ==
    <<pc, engineVars, mcfVars, renderVars, stampVars, lookupVars, serviceVars>>

Undefined == "<undefined>"
Null == "<null>"

\* JavaScript truthiness of a string-or-undefined-or-null value
Falsy(v) == v \in {Undefined, Null, ""}

\* a || b on such values
OrElse(a, b) == IF Falsy(a) THEN b ELSE a

Max(a, b) == IF a >= b THEN a ELSE b

-----------------------------------------------------------------------------
(* Number formatting: Number.prototype.toString and String.prototype.padStart *)

DigitChars == <<"0", "1", "2", "3", "4", "5", "6", "7", "8", "9">>

RECURSIVE NumToString(_)
NumToString(n) ==
    IF n < 10 THEN DigitChars[n + 1]
    ELSE NumToString(n \div 10) \o DigitChars[(n % 10) + 1]

RECURSIVE PadStartStr(_, _, _)
PadStartStr(s, width, fill) ==
    IF Len(s) >= width THEN s ELSE PadStartStr(fill \o s, width, fill)

-----------------------------------------------------------------------------
(* utils/skipGenerator.js *)

NaN == -1

SEVERITY_LEVELS == [off |-> 0, low |-> 1, medium |-> 2, high |-> 3]

\* SEVERITY_LEVELS[key]: the rank, or undefined (NaN in a comparison)
SeverityLevel(key) ==
    IF key \in DOMAIN SEVERITY_LEVELS THEN SEVERITY_LEVELS[key] ELSE NaN

\* a >= b on numbers-or-undefined: false as soon as one side is NaN
GreaterOrEqual(a, b) == a # NaN /\ b # NaN /\ a >= b

DefaultConfig ==
    [nudity |-> "off", sex |-> "off", violence |-> "off", language |-> "off",
     drugs |-> "off", fear |-> "off", discrimination |-> "off",
     dispensable |-> "off", commercial |-> "off"]

\* { ...defaults, ...userConfig }, userConfig defaulting to {}
MergeConfig(uc) ==
    LET given == IF uc.kind = "object" THEN uc.map ELSE <<>>
    IN [k \in DOMAIN DefaultConfig \cup DOMAIN given |->
           IF k \in DOMAIN given THEN given[k] ELSE DefaultConfig[k]]

\* config[category]
Threshold(config, category) ==
    IF category \in DOMAIN config THEN config[category] ELSE Undefined

generateDescription(category, severity) ==
    LET descriptions ==
            [nudity |-> "Nudity", sex |-> "Sexual content",
             violence |-> "Violence", language |-> "Strong language",
             drugs |-> "Drug/alcohol use", fear |-> "Frightening scene",
             discrimination |-> "Discriminatory content",
             dispensable |-> "Skippable scene",
             commercial |-> "Product placement"]
    IN IF category \in DOMAIN descriptions
       THEN descriptions[category] ELSE category

formatTimeForDisplay(ms) ==
    LET totalSeconds == ms \div 1000
        minutes == totalSeconds \div 60
        seconds == totalSeconds % 60
    IN NumToString(minutes) \o ":" \o PadStartStr(NumToString(seconds), 2, "0")

\* line 58 with > for >=
KeepsSegmentStrict(segment, config) ==
    LET userThreshold == Threshold(config, segment.category)
    IN /\ ~Falsy(userThreshold)
       /\ userThreshold # "off"
       /\ SeverityLevel(segment.severity) > SeverityLevel(userThreshold)
       /\ SeverityLevel(userThreshold) # NaN

\* line 58 with the comparison reversed
KeepsSegmentReversed(segment, config) ==
    LET userThreshold == Threshold(config, segment.category)
    IN /\ ~(Falsy(userThreshold) \/ userThreshold = "off")
       /\ GreaterOrEqual(SeverityLevel(userThreshold),
                         SeverityLevel(segment.severity))

\* lines 52 and 58: whether the loop pushes a skip for the segment
KeepsSegment(segment, config) ==
    LET userThreshold == Threshold(config, segment.category)
    IN /\ ~(Falsy(userThreshold) \/ userThreshold = "off")
       /\ GreaterOrEqual(SeverityLevel(segment.severity),
                         SeverityLevel(userThreshold))

\* the object pushed at lines 59-71
SkipOf(segment) ==
    [id |-> segment.id,
     startMs |-> segment.startMs,
     endMs |-> segment.endMs,
     startTime |-> formatTimeForDisplay(segment.startMs),
     endTime |-> formatTimeForDisplay(segment.endMs),
     duration |-> segment.endMs - segment.startMs,
     category |-> segment.category,
     subcategory |-> segment.subcategory,
     severity |-> segment.severity,
     channel |-> OrElse(segment.channel, "both"),
     description |-> OrElse(segment.comment,
                            generateDescription(segment.category,
                                                segment.severity))]

\* the loop of lines 46-73
RECURSIVE FilterLoop(_, _)
FilterLoop(segments, config) ==
    IF segments = <<>> THEN <<>>
    ELSE (IF KeepsSegment(Head(segments), config)
          THEN <<SkipOf(Head(segments))>> ELSE <<>>)
         \o FilterLoop(Tail(segments), config)

\* line 76 without the sort
KeepOrder(list) == list

\* Array.prototype.sort with (a, b) => a.startMs - b.startMs: a stable sort
RECURSIVE InsertByStartMs(_, _)
InsertByStartMs(sorted, x) ==
    IF sorted = <<>> THEN <<x>>
    ELSE LET last == sorted[Len(sorted)]
         IN IF last.startMs - x.startMs <= 0
            THEN Append(sorted, x)
            ELSE Append(InsertByStartMs(SubSeq(sorted, 1, Len(sorted) - 1), x),
                        last)

RECURSIVE SortByStartMs(_)
SortByStartMs(list) ==
    IF list = <<>> THEN <<>>
    ELSE InsertByStartMs(SortByStartMs(SubSeq(list, 1, Len(list) - 1)),
                         list[Len(list)])

MERGE_GAP_MS == 500

\* line 92 with the gap subtracted instead of added
MergesIntoMinusGap(current, last) ==
    current.startMs <= last.endMs - MERGE_GAP_MS

\* line 92 with the gap test off by one
MergesIntoStrict(current, last) == current.startMs < last.endMs + MERGE_GAP_MS

\* line 92
MergesInto(current, last) == current.startMs <= last.endMs + MERGE_GAP_MS

\* lines 94-101 with the end overwritten instead of maximised
ExtendOverwrite(last, current) ==
    [last EXCEPT !.endMs = current.endMs,
                 !.endTime = formatTimeForDisplay(current.endMs),
                 !.duration = current.endMs - last.startMs]

\* lines 94-101 without line 95
ExtendStaleEndTime(last, current) ==
    LET endMs == Max(last.endMs, current.endMs)
    IN [last EXCEPT !.endMs = endMs,
                    !.duration = endMs - last.startMs,
                    !.description =
                        IF current.category # last.category
                        THEN last.description \o ", " \o current.category
                        ELSE last.description]

\* lines 94-101 without line 96
ExtendStaleDuration(last, current) ==
    LET endMs == Max(last.endMs, current.endMs)
    IN [last EXCEPT !.endMs = endMs,
                    !.endTime = formatTimeForDisplay(endMs),
                    !.description =
                        IF current.category # last.category
                        THEN last.description \o ", " \o current.category
                        ELSE last.description]

\* lines 94-101
Extend(last, current) ==
    LET endMs == Max(last.endMs, current.endMs)
    IN [last EXCEPT !.endMs = endMs,
                    !.endTime = formatTimeForDisplay(endMs),
                    !.duration = endMs - last.startMs,
                    !.description =
                        IF current.category # last.category
                        THEN last.description \o ", " \o current.category
                        ELSE last.description]

\* the loop of lines 87-105, from index i with the list merged so far
RECURSIVE MergeLoop(_, _, _)
MergeLoop(list, i, merged) ==
    IF i > Len(list) THEN merged
    ELSE LET current == list[i]
             last == merged[Len(merged)]
         IN IF MergesInto(current, last)
            THEN MergeLoop(list, i + 1,
                           [merged EXCEPT ![Len(merged)] = Extend(last, current)])
            ELSE MergeLoop(list, i + 1, Append(merged, current))

mergeOverlappingSkips(list) ==
    IF Len(list) < 2 THEN list
    ELSE MergeLoop(list, 2, <<list[1]>>)

\* line 26 without its first test: reads .segments of null
NoSegmentsUnguarded(fd) ==
    IF fd.kind = "null" THEN "TypeError"
    ELSE IF "segments" \notin DOMAIN fd THEN "return"
    ELSE IF Len(fd.segments) = 0 THEN "return" ELSE "continue"

\* line 26: !filterData || !filterData.segments || length === 0, evaluated
\* left to right; "return" when the test holds, "continue" when it does not,
\* "TypeError" when a property of null is read
NoSegments(fd) ==
    IF fd.kind = "null" THEN "return"
    ELSE IF "segments" \notin DOMAIN fd THEN "return"
    ELSE IF Len(fd.segments) = 0 THEN "return" ELSE "continue"

\* the array skips after the loop of lines 46-73
PushedSkips(fd, uc) ==
    IF NoSegments(fd) = "continue"
    THEN FilterLoop(fd.segments, MergeConfig(uc)) ELSE <<>>

\* generateSkips from line 26 on, with fd the value bound at line 24
generateSkips(fd, uc) ==
    IF NoSegments(fd) = "continue"
    THEN mergeOverlappingSkips(SortByStartMs(PushedSkips(fd, uc)))
    ELSE <<>>

\* Objects are referred to by address: the n segments of filterData.segments
\* are the objects 1..n, in order.
\* line 59 pushing the segment itself instead of a new object
SkipAddressOfSegment(n, i) == i

\* lines 59-71: the object pushed for the segment at index i is a new one
SkipAddress(n, i) == n + i

\* filterData after the call: lines 94-100 write to the object last, which
\* is one of the pushed objects; a stored segment changes when the written
\* object is that segment
StoreAfter(fd, uc) ==
    IF NoSegments(fd) # "continue" THEN fd
    ELSE LET n == Len(fd.segments)
             before == PushedSkips(fd, uc)
             after == generateSkips(fd, uc)
             written == {k \in 1..Len(after) :
                            \A j \in 1..Len(before) : before[j] # after[k]}
             index(k) == CHOOSE i \in 1..n : fd.segments[i].id = after[k].id
         IN [fd EXCEPT !.segments =
                [i \in 1..n |->
                    IF \E k \in written : SkipAddress(n, index(k)) = i
                    THEN LET k == CHOOSE x \in written :
                                      SkipAddress(n, index(x)) = i
                         IN [fd.segments[i] EXCEPT !.endMs = after[k].endMs]
                    ELSE fd.segments[i]]]

-----------------------------------------------------------------------------
(* Text.  A JavaScript string that the MCF code cuts up is a sequence of     *)
(* symbols: each digit, space, newline and punctuation mark is one symbol,   *)
(* and a word of letters is one symbol, since the code never looks inside a  *)
(* word.  null and undefined are the one-symbol texts NullText and           *)
(* UndefinedText, which no input contains.                                   *)

NullText == <<"<null>">>

UndefinedText == <<"<undefined>">>

\* JavaScript truthiness of a text-or-undefined-or-null value
FalsyText(t) == t \in {NullText, UndefinedText, <<>>}

\* a || b on such values
OrElseText(a, b) == IF FalsyText(a) THEN b ELSE a

Digits == {DigitChars[i] : i \in 1..10}

DigitValue(c) == CHOOSE v \in 0..9 : DigitChars[v + 1] = c

\* String(n) for an integer n >= 0
RECURSIVE NumToText(_)
NumToText(n) ==
    IF n < 10 THEN <<DigitChars[n + 1]>>
    ELSE Append(NumToText(n \div 10), DigitChars[(n % 10) + 1])

\* String.prototype.padStart(width, '0')
RECURSIVE PadStart(_, _)
PadStart(t, width) ==
    IF Len(t) >= width THEN t ELSE PadStart(<<"0">> \o t, width)

\* String.prototype.startsWith
StartsWith(t, prefix) ==
    Len(prefix) <= Len(t) /\ SubSeq(t, 1, Len(prefix)) = prefix

\* String.prototype.indexOf from position k (1-based; 0 when absent)
RECURSIVE IndexOf(_, _, _)
IndexOf(t, pattern, k) ==
    IF k + Len(pattern) - 1 > Len(t) THEN 0
    ELSE IF SubSeq(t, k, k + Len(pattern) - 1) = pattern THEN k
    ELSE IndexOf(t, pattern, k + 1)

\* String.prototype.includes
TextIncludes(t, pattern) == IndexOf(t, pattern, 1) # 0

\* String.prototype.substring(n) with n the length of a prefix
Substring(t, prefix) == SubSeq(t, Len(prefix) + 1, Len(t))

\* String.prototype.split with a non-empty separator
RECURSIVE Split(_, _)
Split(t, separator) ==
    LET k == IndexOf(t, separator, 1)
    IN IF k = 0 THEN <<t>>
       ELSE <<SubSeq(t, 1, k - 1)>>
            \o Split(SubSeq(t, k + Len(separator), Len(t)), separator)

WhiteSpace == {" ", "\t", "\r", "\n"}

RECURSIVE TrimStart(_)
TrimStart(t) ==
    IF t # <<>> /\ Head(t) \in WhiteSpace THEN TrimStart(Tail(t)) ELSE t

RECURSIVE TrimEnd(_)
TrimEnd(t) ==
    IF t # <<>> /\ t[Len(t)] \in WhiteSpace
    THEN TrimEnd(SubSeq(t, 1, Len(t) - 1)) ELSE t

\* String.prototype.trim
Trim(t) == TrimEnd(TrimStart(t))

\* split(/\r?\n/): cut at every newline, a carriage return before it included
SplitLines(t) ==
    LET pieces == Split(t, <<"\n">>)
    IN [i \in 1..Len(pieces) |->
           IF /\ i < Len(pieces)
              /\ pieces[i] # <<>>
              /\ pieces[i][Len(pieces[i])] = "\r"
           THEN SubSeq(pieces[i], 1, Len(pieces[i]) - 1)
           ELSE pieces[i]]

\* the value of a run of digits
RECURSIVE DigitsValue(_, _)
DigitsValue(t, acc) ==
    IF t = <<>> \/ Head(t) \notin Digits THEN acc
    ELSE DigitsValue(Tail(t), acc * 10 + DigitValue(Head(t)))

\* parseInt on a text without sign: leading white space skipped, then the
\* longest run of digits; NaN when there is none
parseInt(t) ==
    LET u == TrimStart(t)
    IN IF u = <<>> \/ Head(u) \notin Digits THEN NaN ELSE DigitsValue(u, 0)

\* objects: obj with obj[key] = value
SetField(obj, key, value) ==
    [k \in DOMAIN obj \cup {key} |-> IF k = key THEN value ELSE obj[k]]

-----------------------------------------------------------------------------
(* utils/mcf.js *)

CATEGORIES ==
    [nudity |-> "nudity", bareButtocks |-> "nudity",
     exposedGenitalia |-> "nudity", fullNudity |-> "nudity",
     toplessness |-> "nudity",
     sex |-> "sex", adultery |-> "sex", analSex |-> "sex", coitus |-> "sex",
     kissing |-> "sex", masturbation |-> "sex", objectification |-> "sex",
     oralSex |-> "sex", premaritalSex |-> "sex", promiscuity |-> "sex",
     prostitution |-> "sex", violence |-> "violence", choking |-> "violence",
     crueltyToAnimals |-> "violence", culturalViolence |-> "violence",
     desecration |-> "violence", emotionalViolence |-> "violence",
     kicking |-> "violence", massacre |-> "violence", murder |-> "violence",
     punching |-> "violence", rape |-> "violence", slapping |-> "violence",
     slavery |-> "violence", stabbing |-> "violence", torture |-> "violence",
     warfare |-> "violence", weapons |-> "violence", language |-> "language",
     blasphemy |-> "language", nameCalling |-> "language",
     sexualDialogue |-> "language", swearing |-> "language",
     vulgarity |-> "language", drugs |-> "drugs", alcohol |-> "drugs",
     antipsychotics |-> "drugs", cigarettes |-> "drugs",
     depressants |-> "drugs", gambling |-> "drugs", hallucinogens |-> "drugs",
     stimulants |-> "drugs", fear |-> "fear", accident |-> "fear",
     acrophobia |-> "fear", aliens |-> "fear", arachnophobia |-> "fear",
     claustrophobia |-> "fear", death |-> "fear", explosion |-> "fear",
     fire |-> "fear", ghosts |-> "fear", vampires |-> "fear",
     discrimination |-> "discrimination", racism |-> "discrimination",
     sexism |-> "discrimination", homophobia |-> "discrimination",
     dispensable |-> "dispensable", tedious |-> "dispensable",
     commercial |-> "commercial", productPlacement |-> "commercial"]

\* CATEGORIES is an object literal, so a property lookup that finds no own
\* key goes on to Object.prototype, which has these properties
ObjectPrototypeKeys ==
    {"constructor", "toString", "toLocaleString", "valueOf", "hasOwnProperty",
     "isPrototypeOf", "propertyIsEnumerable", "__proto__", "__defineGetter__",
     "__defineSetter__", "__lookupGetter__", "__lookupSetter__"}

\* the value of an inherited property: a function or object, no string
InheritedValue == <<"<inherited>">>

\* CATEGORIES[name] for a text name: the own property, else the inherited
\* one, else undefined
CategoryOf(name) ==
    IF Len(name) = 1 /\ name[1] \in DOMAIN CATEGORIES
    THEN <<CATEGORIES[name[1]]>>
    ELSE IF Len(name) = 1 /\ name[1] \in ObjectPrototypeKeys
    THEN InheritedValue
    ELSE UndefinedText

\* whether t[k..k+11] reads dd:dd:dd.ddd
TimestampAt(t, k) ==
    /\ k + 11 <= Len(t)
    /\ \A d \in {0, 1, 3, 4, 6, 7, 9, 10, 11} : t[k + d] \in Digits
    /\ t[k + 2] = ":" /\ t[k + 5] = ":" /\ t[k + 8] = "."

\* parseTimestamp: the first match of /(\d{2}):(\d{2}):(\d{2})\.(\d{3})/
\* anywhere in the text, 0 when there is none
parseTimestamp(timestamp) ==
    LET starts == {k \in 1..Len(timestamp) : TimestampAt(timestamp, k)}
    IN IF starts = {} THEN 0
       ELSE LET k == CHOOSE x \in starts : \A y \in starts : x <= y
                hours == DigitsValue(SubSeq(timestamp, k, k + 1), 0)
                minutes == DigitsValue(SubSeq(timestamp, k + 3, k + 4), 0)
                seconds == DigitsValue(SubSeq(timestamp, k + 6, k + 7), 0)
                ms == DigitsValue(SubSeq(timestamp, k + 9, k + 11), 0)
            IN (hours * 3600 + minutes * 60 + seconds) * 1000 + ms

\* line 249 with the milliseconds padded to two digits
formatTimestampShortMillis(ms) ==
    LET hours == ms \div 3600000
        minutes == (ms % 3600000) \div 60000
        seconds == (ms % 60000) \div 1000
        milliseconds == ms % 1000
    IN PadStart(NumToText(hours), 2) \o <<":">>
       \o PadStart(NumToText(minutes), 2) \o <<":">>
       \o PadStart(NumToText(seconds), 2) \o <<".">>
       \o PadStart(NumToText(milliseconds), 2)

formatTimestamp(ms) ==
    LET hours == ms \div 3600000
        minutes == (ms % 3600000) \div 60000
        seconds == (ms % 60000) \div 1000
        milliseconds == ms % 1000
    IN PadStart(NumToText(hours), 2) \o <<":">>
       \o PadStart(NumToText(minutes), 2) \o <<":">>
       \o PadStart(NumToText(seconds), 2) \o <<".">>
       \o PadStart(NumToText(milliseconds), 3)

\* parseFilterLine without the test of line 212
parseFilterLineLenient(line) ==
    LET split == Split(line, <<" ", "#", " ">>)
        comment == IF Len(split) >= 2 THEN split[2] ELSE UndefinedText
        parts == Split(split[1], <<"=">>)
    IN <<[category |-> parts[1],
          parentCategory |-> OrElseText(CategoryOf(parts[1]), parts[1]),
          severity |-> IF Len(parts) >= 2 THEN parts[2] ELSE UndefinedText,
          channel |-> OrElseText(IF Len(parts) >= 3 THEN parts[3]
                                 ELSE UndefinedText, <<"both">>),
          comment |-> OrElseText(comment, NullText)]>>

\* parseFilterLine: <<>> for null, <<filter>> for a filter object
parseFilterLine(line) ==
    LET split == Split(line, <<" ", "#", " ">>)
        filterPart == split[1]
        comment == IF Len(split) >= 2 THEN split[2] ELSE UndefinedText
        parts == Split(filterPart, <<"=">>)
    IN IF Len(parts) < 2 THEN <<>>
       ELSE <<[category |-> parts[1],
               parentCategory |-> OrElseText(CategoryOf(parts[1]), parts[1]),
               severity |-> parts[2],
               channel |-> OrElseText(IF Len(parts) >= 3 THEN parts[3]
                                      ELSE UndefinedText, <<"both">>),
               comment |-> OrElseText(comment, NullText)]>>

HEADER == <<"WEBVTT", " ", "MovieContentFilter">>

DEFAULT_VERSION == <<"1", ".", "1", ".", "0">>

ARROW == <<" ", "-->", " ">>

\* the keyword of a NOTE line with the space after it
Keyword(word) == <<word, " ">>

\* lines 138-160: the effect of one line of a NOTE block on result
ParseNoteLine(line, result) ==
    LET text(word) == Substring(line, Keyword(word))
        meta(key, value) ==
            [result EXCEPT !.metadata = SetField(@, key, value)]
    IN IF line = <<>> THEN result
       ELSE IF StartsWith(line, Keyword("TITLE"))
       THEN meta("title", text("TITLE"))
       ELSE IF StartsWith(line, Keyword("YEAR"))
       THEN meta("year", parseInt(text("YEAR")))
       ELSE IF StartsWith(line, Keyword("TYPE"))
       THEN meta("type", text("TYPE"))
       ELSE IF StartsWith(line, Keyword("SEASON"))
       THEN meta("season", parseInt(text("SEASON")))
       ELSE IF StartsWith(line, Keyword("EPISODE"))
       THEN meta("episode", parseInt(text("EPISODE")))
       ELSE IF StartsWith(line, Keyword("IMDB"))
       THEN meta("imdb", text("IMDB"))
       ELSE IF StartsWith(line, Keyword("SOURCE"))
       THEN meta("source", text("SOURCE"))
       ELSE IF StartsWith(line, Keyword("RELEASE"))
       THEN meta("release", text("RELEASE"))
       ELSE IF StartsWith(line, Keyword("START"))
       THEN [result EXCEPT !.markers.start = parseTimestamp(text("START"))]
       ELSE IF StartsWith(line, Keyword("END"))
       THEN [result EXCEPT !.markers.end = parseTimestamp(text("END"))]
       ELSE result

\* lines 167-172: the cue a timestamp line opens
OpenCue(line) ==
    LET parts == Split(line, ARROW)
    IN [startTime |-> parseTimestamp(parts[1]),
        endTime |-> parseTimestamp(parts[2]),
        filters |-> <<>>]

\* result.segments.push(cue) when the cue has a filter (lines 187-189, 197-199)
PushCue(result, cue) ==
    IF Len(cue.filters) > 0
    THEN [result EXCEPT !.segments = Append(@, cue)] ELSE result

\* what ParseLoop yields when a line makes parseMCF raise a TypeError
TypeError == [threw |-> TRUE, error |-> "TypeError"]

\* the while loop of lines 127-194 and the flush of lines 197-199; lines is
\* 1-based, so the i of the source is i - 1 here; currentCue is <<>> for null
\* and <<cue>> for a cue
RECURSIVE ParseLoop(_, _, _, _, _)
ParseLoop(lines, i, inNote, currentCue, result) ==
    IF i > Len(lines)
    THEN IF currentCue # <<>> THEN PushCue(result, currentCue[1]) ELSE result
    ELSE LET line == Trim(lines[i])
         IN IF line = <<"NOTE">>
            THEN ParseLoop(lines, i + 1, TRUE, currentCue, result)
            ELSE IF inNote
            THEN ParseLoop(lines, i + 1, line # <<>>, currentCue,
                           ParseNoteLine(line, result))
            ELSE IF TextIncludes(line, ARROW)
            THEN IF Len(Split(line, ARROW)) < 2
                 THEN TypeError    \* endTime undefined: undefined.match
                 ELSE ParseLoop(lines, i + 1, FALSE, <<OpenCue(line)>>, result)
            ELSE LET withFilter ==
                         IF currentCue # <<>> /\ line # <<>>
                         THEN <<[currentCue[1] EXCEPT
                                    !.filters = @ \o parseFilterLine(line)]>>
                         ELSE currentCue
                 IN IF line = <<>> /\ withFilter # <<>>
                    THEN ParseLoop(lines, i + 1, FALSE, <<>>,
                                   PushCue(result, withFilter[1]))
                    ELSE ParseLoop(lines, i + 1, FALSE, withFilter, result)

NullNumber == -2

\* lines 113-121
EmptyResult(firstLine) ==
    LET words == Split(firstLine, <<" ">>)
    IN [version |-> OrElseText(IF Len(words) >= 3 THEN words[3]
                               ELSE UndefinedText, DEFAULT_VERSION),
        metadata |-> <<>>,
        markers |-> [start |-> NullNumber, end |-> NullNumber],
        segments |-> <<>>]

\* line 109 testing the whole first line instead of its beginning
HeaderMissingExact(firstLine) == firstLine # HEADER \o <<" ">> \o DEFAULT_VERSION

\* line 109
HeaderMissing(firstLine) == ~StartsWith(firstLine, HEADER)

\* parseMCF: the Error of line 110, a TypeError, or the returned result
parseMCF(mcfContent) ==
    LET lines == SplitLines(mcfContent)
    IN IF HeaderMissing(lines[1])
       THEN [threw |-> TRUE, error |-> "Invalid MCF format: missing header"]
       ELSE LET result ==
                    ParseLoop(lines, 3, FALSE, <<>>, EmptyResult(lines[1]))
            IN IF "threw" \in DOMAIN result THEN result
               ELSE [threw |-> FALSE, value |-> result]

\* `${value}` for a text, null or undefined
Template(value) ==
    IF value = UndefinedText THEN <<"undefined">>
    ELSE IF value = NullText THEN <<"null">> ELSE value

\* JavaScript truthiness of a number
TruthyNumber(n) == n \notin {0, NaN, NullNumber}

\* lines 262, 264, 267, 268: if (metadata.key) mcf += `WORD ${metadata.key}\n`
TextField(metadata, key, word) ==
    IF key \in DOMAIN metadata /\ ~FalsyText(metadata[key])
    THEN Keyword(word) \o metadata[key] \o <<"\n">> ELSE <<>>

\* lines 263, 265, 266: the same for a number
NumberField(metadata, key, word) ==
    IF key \in DOMAIN metadata /\ TruthyNumber(metadata[key])
    THEN Keyword(word) \o NumToText(metadata[key]) \o <<"\n">> ELSE <<>>

\* lines 260-270
MetadataBlock(data) ==
    IF "metadata" \in DOMAIN data /\ DOMAIN data.metadata # {}
    THEN <<"NOTE", "\n">>
         \o TextField(data.metadata, "title", "TITLE")
         \o NumberField(data.metadata, "year", "YEAR")
         \o TextField(data.metadata, "type", "TYPE")
         \o NumberField(data.metadata, "season", "SEASON")
         \o NumberField(data.metadata, "episode", "EPISODE")
         \o TextField(data.metadata, "imdb", "IMDB")
         \o TextField(data.metadata, "release", "RELEASE")
         \o <<"\n">>
    ELSE <<>>

\* lines 273-278
MarkersBlock(data) ==
    IF "markers" \in DOMAIN data
    THEN <<"NOTE", "\n">>
         \o (IF data.markers.start # NullNumber
             THEN Keyword("START") \o formatTimestamp(data.markers.start)
                  \o <<"\n">>
             ELSE <<>>)
         \o (IF data.markers.end # NullNumber
             THEN Keyword("END") \o formatTimestamp(data.markers.end)
                  \o <<"\n">>
             ELSE <<>>)
         \o <<"\n">>
    ELSE <<>>

\* lines 285-292
FilterLine(filter) ==
    Template(filter.category) \o <<"=">> \o Template(filter.severity)
    \o (IF ~FalsyText(filter.channel) /\ filter.channel # <<"both">>
        THEN <<"=">> \o filter.channel ELSE <<>>)
    \o (IF ~FalsyText(filter.comment)
        THEN <<" ", "#", " ">> \o filter.comment ELSE <<>>)
    \o <<"\n">>

RECURSIVE FilterLines(_)
FilterLines(filters) ==
    IF filters = <<>> THEN <<>>
    ELSE FilterLine(Head(filters)) \o FilterLines(Tail(filters))

\* lines 281-296
RECURSIVE SegmentBlocks(_)
SegmentBlocks(segments) ==
    IF segments = <<>> THEN <<>>
    ELSE LET segment == Head(segments)
         IN formatTimestamp(segment.startTime) \o ARROW
            \o formatTimestamp(segment.endTime) \o <<"\n">>
            \o FilterLines(segment.filters) \o <<"\n">>
            \o SegmentBlocks(Tail(segments))

generateMCF(data) ==
    HEADER \o <<" ">> \o DEFAULT_VERSION \o <<"\n", "\n">>
    \o MetadataBlock(data)
    \o MarkersBlock(data)
    \o SegmentBlocks(IF "segments" \in DOMAIN data THEN data.segments ELSE <<>>)

\* lines 304-317: one document segment with one filter per stored segment
dbToMCFSegments(segments) ==
    [i \in 1..Len(segments) |->
        LET seg == segments[i]
        IN [startTime |-> seg.startMs,
            endTime |-> seg.endMs,
            filters |->
                <<[category |-> OrElseText(seg.subcategory, seg.category),
                   parentCategory |-> seg.category,
                   severity |-> seg.severity,
                   channel |-> OrElseText(seg.channel, <<"both">>),
                   comment |-> OrElseText(seg.comment, NullText)]>>]]

\* lines 326-334: the segment pushed for one filter of a document segment
FilterToDBSegment(seg, filter) ==
    [startMs |-> seg.startTime,
     endMs |-> seg.endTime,
     category |-> OrElseText(filter.parentCategory,
                             OrElseText(CategoryOf(filter.category),
                                        filter.category)),
     subcategory |-> filter.category,
     severity |-> filter.severity,
     channel |-> OrElseText(filter.channel, <<"both">>),
     comment |-> filter.comment]

\* lines 322-339: the loops over the segments and their filters
RECURSIVE mcfToDBSegments(_)
mcfToDBSegments(mcfSegments) ==
    IF mcfSegments = <<>> THEN <<>>
    ELSE LET seg == Head(mcfSegments)
         IN [k \in 1..Len(seg.filters) |->
                FilterToDBSegment(seg, seg.filters[k])]
            \o mcfToDBSegments(Tail(mcfSegments))

-----------------------------------------------------------------------------
(* utils/skipGenerator.js: the renderers.  The VTT text is a sequence of     *)
(* symbols as above; a fixed piece of a line and a description are one       *)
(* symbol each.                                                              *)

\* a % b of JavaScript for b > 0: the remainder has the sign of a
Remainder(a, b) == IF a >= 0 THEN a % b ELSE 0 - ((0 - a) % b)

\* String(n) for any integer n
SignedNumToText(n) ==
    IF n < 0 THEN <<"-">> \o NumToText(0 - n) ELSE NumToText(n)

\* lines 186-193
formatVTTTimestamp(ms) ==
    LET hours == ms \div 3600000
        minutes == Remainder(ms, 3600000) \div 60000
        seconds == Remainder(ms, 60000) \div 1000
        milliseconds == Remainder(ms, 1000)
    IN PadStart(SignedNumToText(hours), 2) \o <<":">>
       \o PadStart(SignedNumToText(minutes), 2) \o <<":">>
       \o PadStart(SignedNumToText(seconds), 2) \o <<".">>
       \o PadStart(SignedNumToText(milliseconds), 3)

WARNING_LEAD_MS == 3000

\* line 152 without Math.max
WarningStartUnclamped(skip) == skip.startMs - WARNING_LEAD_MS

\* line 152
WarningStart(skip) == Max(0, skip.startMs - WARNING_LEAD_MS)

\* lines 155-157: the warning block of the skip at index (0-based)
WarningBlock(skip, index) ==
    NumToText(index + 1) \o <<"-warning", "\n">>
    \o formatVTTTimestamp(WarningStart(skip)) \o ARROW
    \o formatVTTTimestamp(skip.startMs) \o <<"\n">>
    \o <<"<c.cleanstream-warning>[U+23ED] Scene skip in 3s (",
         skip.description, ")</c>", "\n", "\n">>

\* lines 160-162: the skip block
SkipBlock(skip, index) ==
    NumToText(index + 1) \o <<"-skip", "\n">>
    \o formatVTTTimestamp(skip.startMs) \o ARROW
    \o formatVTTTimestamp(skip.endMs) \o <<"\n">>
    \o <<"<c.cleanstream-skip>[U+23ED] Press [U+2192] to skip (",
         skip.description, ")</c>", "\n", "\n">>

\* the forEach of lines 150-163, from index on
RECURSIVE SkipBlocks(_, _)
SkipBlocks(skips, index) ==
    IF index >= Len(skips) THEN <<>>
    ELSE WarningBlock(skips[index + 1], index)
         \o SkipBlock(skips[index + 1], index)
         \o SkipBlocks(skips, index + 1)

\* lines 144-166
generateSkipVTT(skips, imdbId) ==
    <<"WEBVTT CleanStream Skip Data", "\n">>
    \o <<"X-CLEANSTREAM-VERSION: 1.0.0", "\n">>
    \o <<"X-CLEANSTREAM-IMDB: ", imdbId, "\n">>
    \o <<"X-CLEANSTREAM-TOTAL-SKIPS: ">> \o NumToText(Len(skips))
    \o <<"\n", "\n">>
    \o SkipBlocks(skips, 0)

\* line 178: skips.reduce((sum, s) => sum + s.duration, 0)
RECURSIVE SumOfDurations(_)
SumOfDurations(skips) ==
    IF skips = <<>> THEN 0
    ELSE SumOfDurations(SubSeq(skips, 1, Len(skips) - 1))
         + skips[Len(skips)].duration

\* lines 171-181; generatedAt is the clock reading now, metadata an object
generateSkipJSON(skips, imdbId, metadata, now) ==
    [version |-> "1.0.0",
     imdbId |-> imdbId,
     metadata |-> metadata,
     generatedAt |-> now,
     totalSkips |-> Len(skips),
     totalSkipTime |-> SumOfDurations(skips),
     skips |-> skips]

-----------------------------------------------------------------------------
(* database/jsonStorage.js and database/repository.js with DATABASE_URL      *)
(* unset: isPostgresAvailable() is false and every repository function hands *)
(* over to jsonStorage.  The store is the file of one title; a reading of    *)
(* the clock is a number; the text fields of a stored segment are strings.   *)

\* no file DATA_DIR/<imdbId>.json
NoFile == [kind |-> "null"]

\* a number after JSON.stringify and JSON.parse: NaN is written as null
JsonNumber(n) == IF n = NaN THEN NullNumber ELSE n

\* JSON.parse(JSON.stringify(data)): of a promise, the properties that were
\* assigned to it; of a record of a title, the record with the numbers of
\* its segments as JSON writes them (no segment has an undefined property)
JsonOf(data) ==
    IF data.kind = "promise" THEN [kind |-> "object"] @@ data.props
    ELSE IF "segments" \in DOMAIN data
    THEN [data EXCEPT !.segments =
             [i \in 1..Len(@) |->
                 [@[i] EXCEPT !.startMs = JsonNumber(@),
                              !.endMs = JsonNumber(@)]]]
    ELSE data

\* jsonStorage getFilters (index.js:754-770): null without a file, else the
\* parsed file
jsonDbGetFilters(file) == file

\* jsonStorage saveFilters (index.js:775-785): the file after the write
saveFilters(data) == JsonOf(data)

\* jsonStorage createEmptyFilterData (index.js:812-824)
createEmptyFilterData(imdbId, now) ==
    [kind |-> "object", imdbId |-> imdbId, title |-> Null, year |-> NullNumber,
     type |-> Null, segments |-> <<>>, releases |-> <<>>, version |-> 1,
     createdAt |-> now, updatedAt |-> now]

\* jsonStorage addSegment (index.js:792-806) for the k-th segment of the
\* request served at now: the file afterwards, or the TypeError of line 800
\* when the stored record has no segments; the random suffix of the id is
\* taken distinct for each segment
jsonDbAddSegment(file, imdbId, segment, now, k) ==
    LET found == jsonDbGetFilters(file)
        filterData0 == IF found.kind = "null"
                       THEN createEmptyFilterData(imdbId, now) ELSE found
        stored == [id |-> <<now, k>>, addedAt |-> now,
                   votes |-> [up |-> 0, down |-> 0]] @@ segment
    IN IF "segments" \notin DOMAIN filterData0
       THEN [threw |-> TRUE, file |-> file]
       ELSE [threw |-> FALSE,
             file |-> saveFilters([filterData0 EXCEPT
                                      !.segments = Append(@, stored),
                                      !.updatedAt = now,
                                      !.version = @ + 1])]

\* repository getFilters (repository.js:60-63): an async function, whose
\* call yields a promise of what jsonStorage returns; props holds the
\* properties a caller assigns to the promise object
getFilters(file) ==
    [kind |-> "promise", value |-> jsonDbGetFilters(file), props |-> <<>>]

\* await: the value of a promise, and any other value itself
Await(p) == IF p.kind = "promise" THEN p.value ELSE p

\* repository addSegment (repository.js:109-112): an async function that
\* runs jsonStorage addSegment during the call; what it throws rejects the
\* promise it returns, which no caller awaits
addSegment(file, imdbId, segment, now, k) ==
    jsonDbAddSegment(file, imdbId, segment, now, k).file

\* db.addSegment for each segment of a list in turn (routes.js:283-289,
\* contribute.js:117-123), from the k-th on
RECURSIVE AddSegments(_, _, _, _, _)
AddSegments(file, imdbId, segments, now, k) ==
    IF k > Len(segments) THEN file
    ELSE AddSegments(addSegment(file, imdbId, segments[k], now, k),
                     imdbId, segments, now, k + 1)

-----------------------------------------------------------------------------
(* The contribution handlers: api/routes.js and cli/contribute.js.  Each     *)
(* yields the file and the answer after the request served at now.           *)

\* the string of a text: its symbols in a row; null and undefined themselves
RECURSIVE StringOf(_)
StringOf(t) ==
    IF t = NullText THEN Null
    ELSE IF t = UndefinedText THEN Undefined
    ELSE IF t = <<>> THEN ""
    ELSE Head(t) \o StringOf(Tail(t))

\* a segment of mcfToDBSegments with its text fields as strings
WithStrings(seg) ==
    [startMs |-> seg.startMs, endMs |-> seg.endMs,
     category |-> StringOf(seg.category),
     subcategory |-> StringOf(seg.subcategory),
     severity |-> StringOf(seg.severity),
     channel |-> StringOf(seg.channel),
     comment |-> StringOf(seg.comment)]

VALID_CATEGORIES ==
    {"nudity", "sex", "violence", "language", "drugs", "fear",
     "discrimination", "dispensable", "commercial"}

\* routes.js:224: !startMs || !endMs || !category || !severity
MissingFields(body) ==
    \/ ~TruthyNumber(body.startMs) \/ ~TruthyNumber(body.endMs)
    \/ Falsy(body.category) \/ Falsy(body.severity)

\* POST /api/contribute/:imdbId (routes.js:219-258); the segment of the
\* answer is the promise addSegment returns, which JSON writes as {}
postContribute(file, imdbId, body, now) ==
    IF MissingFields(body)
    THEN [file |-> file,
          answer |-> [status |-> 400, error |-> "Missing required fields"]]
    ELSE IF body.severity \notin {"low", "medium", "high"}
    THEN [file |-> file,
          answer |-> [status |-> 400, error |-> "Invalid severity"]]
    ELSE IF body.category \notin VALID_CATEGORIES
    THEN [file |-> file,
          answer |-> [status |-> 400, error |-> "Invalid category"]]
    ELSE [file |->
              addSegment(file, imdbId,
                         [startMs |-> parseInt(NumToText(body.startMs)),
                          endMs |-> parseInt(NumToText(body.endMs)),
                          category |-> body.category,
                          subcategory |-> OrElse(body.subcategory,
                                                 body.category),
                          severity |-> body.severity,
                          channel |-> OrElse(body.channel, "both"),
                          comment |-> OrElse(body.comment, Null),
                          contributor |-> OrElse(body.contributor,
                                                 "anonymous")],
                         now, 1),
          answer |-> [status |-> 201,
                      message |-> "Segment added successfully"]]

\* POST /api/contribute/:imdbId/mcf (routes.js:264-298): what parseMCF
\* throws is caught; the metadata of lines 275-279 is assigned to the
\* promise of line 272, which is not saved
postContributeMcf(file, imdbId, text, now) ==
    LET mcfData == parseMCF(text)
    IN IF mcfData.threw
       THEN [file |-> file,
             answer |-> [status |-> 400, error |-> "Invalid MCF format"]]
       ELSE LET segments == mcfToDBSegments(mcfData.value.segments)
                given == [k \in 1..Len(segments) |->
                             [contributor |-> "mcf-import"]
                             @@ WithStrings(segments[k])]
            IN [file |-> AddSegments(file, imdbId, given, now, 1),
                answer |-> [status |-> 201,
                            message |-> "MCF imported successfully",
                            segmentsAdded |-> Len(segments)]]

\* obj.name = value for each name of props: on a promise the properties are
\* set on the promise object, on a record they replace the record's
Assign(obj, props) ==
    IF obj.kind = "promise" THEN [obj EXCEPT !.props = props @@ @]
    ELSE props @@ obj

\* the properties of the metadata that the body gives and that are truthy:
\* a missing property, an empty text and a year 0 leave the record's alone;
\* parseInt of the integer that the JSON body carries is that integer
\* (routes.js:335-337)
GivenMetadata(body) ==
    LET named == {name \in DOMAIN body :
                     IF name = "year" THEN body.year # 0 ELSE body[name] # ""}
    IN [name \in named |-> body[name]]

\* PUT /api/filters/:imdbId/metadata (routes.js:325-343): the file
\* afterwards and the answer. What db.getFilters returns is not awaited, so
\* filterData is the promise, which is truthy; the properties are assigned
\* to it, and saveFilters writes it.
putMetadata(file, imdbId, body, now) ==
    LET found == getFilters(file)
        filterData0 == IF found.kind \in {"null", "undefined"}
                       THEN createEmptyFilterData(imdbId, now) ELSE found
        filterData1 == Assign(Assign(filterData0, GivenMetadata(body)),
                              [updatedAt |-> now])
    IN [file |-> saveFilters(filterData1),
        answer |-> [status |-> 200, message |-> "Metadata updated",
                    filterData |-> JsonOf(filterData1)]]

\* Number(s) of a text of digits: 0 for the empty text, NaN for another text
NumberOf(t) ==
    IF t = <<>> THEN 0
    ELSE IF \A i \in 1..Len(t) : t[i] \in Digits THEN DigitsValue(t, 0)
    ELSE NaN

\* arithmetic on numbers-or-NaN
Plus(a, b) == IF a = NaN \/ b = NaN THEN NaN ELSE a + b

Times(a, b) == IF a = NaN \/ b = NaN THEN NaN ELSE a * b

\* contribute.js:187-199
parseTimeToMs(timeStr) ==
    LET parts == Split(timeStr, <<":">>)
        part(i) == NumberOf(parts[i])
    IN IF Len(parts) = 2
       THEN Times(Plus(Times(part(1), 60), part(2)), 1000)
       ELSE IF Len(parts) = 3
       THEN Times(Plus(Plus(Times(part(1), 3600), Times(part(2), 60)),
                       part(3)), 1000)
       ELSE 0

\* contribute.js add (lines 27-95) with the answers typed at the prompts;
\* line 31 binds a promise, so the title is never asked for
cliAddSegment(file, imdbId, typed, now) ==
    LET startMs == parseTimeToMs(typed.startTimeStr)
        endMs == parseTimeToMs(typed.endTimeStr)
    IN IF GreaterOrEqual(startMs, endMs)
       THEN [file |-> file,
             answer |-> [printed |-> "End time must be after start time"]]
       ELSE [file |->
                 addSegment(file, imdbId,
                            [startMs |-> startMs,
                             endMs |-> endMs,
                             category |-> typed.category,
                             subcategory |-> typed.category,
                             severity |-> typed.severity,
                             channel |-> OrElse(typed.channel, "both"),
                             comment |-> OrElse(typed.comment, Null),
                             contributor |-> OrElse(typed.contributor,
                                                    "cli-contributor")],
                            now, 1),
             answer |-> [printed |-> "Segment added"]]

\* contribute.js import (lines 97-126): what parseMCF throws ends the command
importMCF(file, imdbId, text, now) ==
    LET mcfData == parseMCF(text)
    IN IF mcfData.threw
       THEN [file |-> file, answer |-> [printed |-> "Error"]]
       ELSE LET segments == mcfToDBSegments(mcfData.value.segments)
                given == [k \in 1..Len(segments) |->
                             [contributor |-> "mcf-import"]
                             @@ WithStrings(segments[k])]
            IN [file |-> AddSegments(file, imdbId, given, now, 1),
                answer |-> [printed |-> "Imported", count |-> Len(segments)]]

-----------------------------------------------------------------------------
(* The readers of the store: GET /api/skips/:imdbId/json (api/routes.js) and *)
(* the subtitles handler (addon/subtitlesHandler.js)                         *)

\* the value generateSkips binds at line 24: what db.getFilters(imdbId)
\* returns, which the line does not await
BoundFilterData(file) == getFilters(file)

\* routes.js:167-175: the config of the query string, {} without one
QueryConfig(config) ==
    IF config.kind = "undefined" THEN [kind |-> "object", map |-> <<>>]
    ELSE config

\* routes.js:164-181: the body of the answer, served at now
getSkipsJson(file, imdbId, config, now) ==
    LET userConfig0 == QueryConfig(config)
        skips == generateSkips(BoundFilterData(file), userConfig0)
        filterData0 == Await(getFilters(file))
        metadata == IF filterData0.kind = "object"
                       /\ "metadata" \in DOMAIN filterData0
                    THEN filterData0.metadata ELSE <<>>
    IN generateSkipJSON(skips, imdbId, metadata, now)

\* subtitlesHandler.js:13-37 for an object config or none
parseUserConfig(config) ==
    LET defaults == [nudity |-> "low", sex |-> "low", violence |-> "medium",
                     language |-> "off", drugs |-> "off", fear |-> "off"]
    IN [kind |-> "object",
        map |-> IF config.kind = "undefined" THEN defaults
                ELSE config.map @@ defaults]

\* subtitlesHandler.js:43-93: the tracks returned
subtitlesHandler(file, imdbId, config) ==
    LET filterData0 == Await(getFilters(file))
        userConfig0 == parseUserConfig(config)
        skips == generateSkips(BoundFilterData(file), userConfig0)
    IN IF NoSegments(filterData0) = "return" THEN [subtitles |-> <<>>]
       ELSE IF Len(skips) = 0 THEN [subtitles |-> <<>>]
       ELSE [subtitles |->
                <<[id |-> "cleanstream-vtt-" \o imdbId,
                   lang |-> "CleanStream (" \o NumToString(Len(skips))
                            \o " skips)"],
                  [id |-> "cleanstream-json-" \o imdbId,
                   lang |-> "CleanStream Data (JSON)"]>>]

-----------------------------------------------------------------------------
(* database/repository.js voteSegment with DATABASE_URL set: the tables Vote *)
(* and Segment of PostgreSQL (Dockerfile:101-146) behind Prisma.  A call     *)
(* stops at each await; a $transaction takes effect at once or not at all.   *)

\* the rows of Vote with the key (visitorId, segmentId)
VoteRows(table, visitorId, segmentId) ==
    {row \in table : row.visitorId = visitorId /\ row.segmentId = segmentId}

\* prisma.vote.findUnique (lines 198-205): <<row>>, or <<>> for null
findUnique(table, visitorId, segmentId) ==
    LET rows == VoteRows(table, visitorId, segmentId)
    IN IF rows = {} THEN <<>> ELSE <<CHOOSE row \in rows : TRUE>>

\* prisma.vote.update (lines 215-220): the voteType of the row with the key
UpdateVote(table, visitorId, segmentId, voteType) ==
    {IF row \in VoteRows(table, visitorId, segmentId)
     THEN [row EXCEPT !.voteType = voteType] ELSE row : row \in table}

\* prisma.segment.update of lines 221-227: one counter incremented and the
\* other decremented
MoveCount(segments, segmentId, voteType) ==
    [segments EXCEPT
        ![segmentId].upvotes = IF voteType = "up" THEN @ + 1 ELSE @ - 1,
        ![segmentId].downvotes = IF voteType = "down" THEN @ + 1 ELSE @ - 1]

\* prisma.segment.update of lines 242-247: the counter of the vote incremented
AddCount(segments, segmentId, voteType) ==
    [segments EXCEPT
        ![segmentId].upvotes = IF voteType = "up" THEN @ + 1 ELSE @,
        ![segmentId].downvotes = IF voteType = "down" THEN @ + 1 ELSE @]

\* lines 207-250, after the await of line 198 has bound existingVote: the
\* tables afterwards and what the call returns; vote.create fails on the
\* primary key (Dockerfile:145) when a row with the key exists by then, and
\* the transaction then changes nothing and the call throws
FinishVote(table, segments, call) ==
    IF call.existingVote # <<>>
    THEN IF call.existingVote[1].voteType = call.voteType
         THEN [table |-> table, segments |-> segments,
               result |-> [success |-> FALSE, reason |-> "already_voted"]]
         ELSE [table |-> UpdateVote(table, call.visitorId, call.segmentId,
                                    call.voteType),
               segments |-> MoveCount(segments, call.segmentId, call.voteType),
               result |-> [success |-> TRUE, changed |-> TRUE]]
    ELSE IF VoteRows(table, call.visitorId, call.segmentId) # {}
    THEN [table |-> table, segments |-> segments,
          result |-> [threw |-> "Unique constraint failed"]]
    ELSE [table |-> table \cup {[visitorId |-> call.visitorId,
                                 segmentId |-> call.segmentId,
                                 voteType |-> call.voteType]},
          segments |-> AddCount(segments, call.segmentId, call.voteType),
          result |-> [success |-> TRUE]]

-----------------------------------------------------------------------------
(* The parts of the state a specification does not use *)

EngineIdle ==
    /\ filterData = <<>> /\ userConfig = <<>>
    /\ pushed = <<>> /\ returned = <<>> /\ threw = FALSE

McfIdle == doc = <<>> /\ mcf = <<>> /\ parsed = <<>>

RenderIdle == vtt = <<>> /\ json = <<>>

StampIdle == stampMs = 0 /\ stampText = <<>> /\ stampBack = 0

LookupIdle == lookupFlag = <<>> /\ lookupParent = <<>>

StoreIdle ==
    dataFile = <<>> /\ clock = 0 /\ request = <<>> /\ response = <<>>

ConvertIdle == dbSegments = <<>> /\ imported = <<>>

VoteIdle == voteTable = {} /\ segmentTable = <<>> /\ voteCalls = <<>>

ServiceIdle == StoreIdle /\ ConvertIdle /\ VoteIdle

-----------------------------------------------------------------------------
(* Inputs of the skip generator *)

MaxSegs == 3

MaxFilterSegs == 2

\* [startMs, endMs) of the stored segments whose timing is varied: nested,
\* touching, and 400, 500, 501 and 1000 ms apart; and one whose end precedes
\* its start, which the store accepts (routes.js:224 tests only for presence)
Spans ==
    {<<0, 1000>>, <<0, 3000>>, <<1400, 2000>>, <<1500, 2000>>, <<1501, 2000>>,
     <<2000, 3000>>, <<3500, 4000>>, <<2600, 100>>}

\* <<span, category, severity>> of the segments of the lists that vary the
\* timing, all of one category; two of the spans also at a lower severity
TimingShapes ==
    (Spans \X {"violence"} \X {"high"})
    \cup ({<<0, 3000>>, <<1400, 2000>>} \X {"violence"} \X {"low"})

\* the same for the lists that vary category and severity
FilterShapes ==
    ({<<0, 1000>>, <<1400, 2000>>} \X {"violence"}
        \X {"low", "medium", "high", Undefined})
    \cup ({<<1400, 2000>>} \X {"language"} \X {"low", "high"})

\* the same for the lists with a fine-grained flag as category, which the
\* command line tool stores as typed (cli/contribute.js:53-79)
FlagShapes ==
    ({<<0, 1000>>, <<1400, 2000>>} \X {"punching"} \X {"low", "high"})
    \cup ({<<0, 1000>>} \X {"violence"} \X {"high"})

\* a stored segment as getFilters yields it (repository.js:83-96)
Segment(id, shape) ==
    [id |-> id, startMs |-> shape[1][1], endMs |-> shape[1][2],
     category |-> shape[2], subcategory |-> Undefined, severity |-> shape[3],
     channel |-> "both", comment |-> Null]

\* the record getFilters yields for a title with the segments of shapes f
FilterDataOf(f) ==
    [kind |-> "object", segments |-> [i \in DOMAIN f |-> Segment(i, f[i])]]

\* what line 24 can bind besides: no record, a record without segments, or
\* the pending promise of an async getFilters
OtherFilterData == {[kind |-> "null"], [kind |-> "object"], [kind |-> "promise"]}

ConfigObject(map) == [kind |-> "object", map |-> map]

TimingConfigs ==
    {ConfigObject([violence |-> t]) : t \in {"low", "high"}}

\* thresholds of the enumeration, an unknown string, the empty string, and
\* absent keys; and no userConfig argument at all
FilterConfigs ==
    {[kind |-> "undefined"]}
    \cup {ConfigObject([violence |-> v]) :
            v \in {"off", "low", "medium", "high", "extreme", ""}}
    \cup {ConfigObject([violence |-> v, language |-> "low"]) :
            v \in {"off", "low", "medium", "high", "extreme", ""}}
    \cup {ConfigObject([language |-> "low"]), ConfigObject(<<>>)}

\* thresholds for the parent category, and one for the flag itself
FlagConfigs ==
    {ConfigObject([violence |-> t]) : t \in {"low", "high"}}
    \cup {ConfigObject([punching |-> "low"])}

InitEngine ==
    /\ pc = "call"
    /\ pushed = <<>>
    /\ returned = <<>>
    /\ threw = FALSE
    /\ McfIdle /\ RenderIdle /\ StampIdle /\ LookupIdle
    /\ ServiceIdle
    /\ \/ /\ \E n \in 0..MaxSegs : \E f \in [1..n -> TimingShapes] :
                 filterData = FilterDataOf(f)
          /\ userConfig \in TimingConfigs
       \/ /\ \/ \E n \in 0..MaxFilterSegs : \E f \in [1..n -> FilterShapes] :
                    filterData = FilterDataOf(f)
             \/ filterData \in OtherFilterData
          /\ userConfig \in FilterConfigs
       \/ /\ \E n \in 1..MaxFilterSegs : \E f \in [1..n -> FlagShapes] :
                 filterData = FilterDataOf(f)
          /\ userConfig \in FlagConfigs

\* one call of generateSkips (lines 23-77)
GenerateSkips ==
    /\ pc = "call"
    /\ pushed' = PushedSkips(filterData, userConfig)
    /\ returned' = generateSkips(filterData, userConfig)
    /\ threw' = (NoSegments(filterData) = "TypeError")
    /\ filterData' = StoreAfter(filterData, userConfig)
    /\ pc' = "done"
    /\ UNCHANGED <<serviceVars, userConfig, mcfVars, renderVars, stampVars,
                   lookupVars>>

NextEngine == GenerateSkips

Spec == InitEngine /\ [][NextEngine]_vars

-----------------------------------------------------------------------------
(* The renderers applied to the list generateSkips returns (routes.js:127-130 *)
(* and 152-153)                                                              *)

MaxRenderSegs == 2

ImdbIds == {"tt0133093", "tt0944947:1:1"}

\* readings of the clock, as toISOString gives them
Instants == {"2024-01-01T00:00:00.000Z", "2024-06-30T23:59:59.999Z"}

InitRender ==
    /\ InitEngine
    /\ "segments" \in DOMAIN filterData =>
           Len(filterData.segments) <= MaxRenderSegs

\* one call of generateSkipVTT (lines 144-166) on the returned list
GenerateSkipVTT ==
    /\ pc = "done"
    /\ \E imdbId \in ImdbIds : vtt' = generateSkipVTT(returned, imdbId)
    /\ pc' = "vtt"
    /\ UNCHANGED <<serviceVars, json, engineVars, mcfVars, stampVars,
                   lookupVars>>

\* one call of generateSkipJSON (lines 171-181) on the returned list, with
\* the default metadata
GenerateSkipJSON ==
    /\ pc = "done"
    /\ \E imdbId \in ImdbIds, now \in Instants :
           json' = generateSkipJSON(returned, imdbId, <<>>, now)
    /\ pc' = "json"
    /\ UNCHANGED <<serviceVars, vtt, engineVars, mcfVars, stampVars,
                   lookupVars>>

NextRender == GenerateSkips \/ GenerateSkipVTT \/ GenerateSkipJSON

SpecRender == InitRender /\ [][NextRender]_vars

-----------------------------------------------------------------------------
(* Inputs of generateMCF: annotation documents *)

MaxDocSegs == 2

Filter(category, parentCategory, severity, channel, comment) ==
    [category |-> <<category>>, parentCategory |-> <<parentCategory>>,
     severity |-> <<severity>>, channel |-> <<channel>>, comment |-> comment]

PlainFilter == Filter("violence", "violence", "high", "both", NullText)

FlagFilter == Filter("punching", "violence", "low", "video", NullText)

CommentFilter ==
    Filter("language", "language", "medium", "audio", <<"strong", " ", "words">>)

\* a comment that contains the comment separator
HashFilter == Filter("sex", "sex", "low", "both", <<"a", " ", "#", " ", "b">>)

\* a comment that contains the cue arrow
ArrowFilter ==
    Filter("nudity", "nudity", "high", "both", <<"cut", " ", "-->", " ", "here">>)

DocFilterLists ==
    {<<PlainFilter>>, <<FlagFilter>>, <<CommentFilter>>, <<HashFilter>>,
     <<ArrowFilter>>, <<PlainFilter, FlagFilter>>, <<CommentFilter, PlainFilter>>}

\* startTime and endTime: up to 99:59:59.999 and 100:00:00.000
DocSpans == {<<0, 1000>>, <<1000, 359999999>>, <<1000, 360000000>>}

DocSegments ==
    {[startTime |-> span[1], endTime |-> span[2], filters |-> filters] :
        span \in DocSpans, filters \in DocFilterLists}

MetadataKeys ==
    {"title", "year", "type", "season", "episode", "imdb", "source", "release"}

\* every combination of set and unset metadata fields
Metadatas ==
    {[k \in keys |-> full[k]] :
        keys \in SUBSET MetadataKeys,
        full \in [title : {<<"Up">>, <<"The", " ", "Matrix">>},
                  year : {1999},
                  type : {<<"movie">>, <<"series">>},
                  season : {0, 1},
                  episode : {2},
                  imdb : {<<"tt", "0", "1", "3", "3", "0", "9", "3">>},
                  source : {<<"videoskip">>},
                  release : {<<"theatrical">>}]}

Markers ==
    {[start |-> NullNumber, end |-> NullNumber],
     [start |-> 5000, end |-> NullNumber],
     [start |-> 5000, end |-> 6000000]}

\* documents that vary the metadata and the markers
MetadataDocs ==
    {[metadata |-> m, segments |-> l] :
        m \in Metadatas,
        l \in {<<>>, <<[startTime |-> 0, endTime |-> 1000,
                        filters |-> <<PlainFilter>>]>>}}
    \cup {[metadata |-> m, markers |-> k, segments |-> <<>>] :
            m \in Metadatas, k \in Markers}

\* the documents with the segments l: bare, and with metadata and markers
SegmentDocs(l) ==
    {[segments |-> l],
     [metadata |-> [title |-> <<"Up">>],
      markers |-> [start |-> 5000, end |-> NullNumber],
      segments |-> l]}

InitRoundTrip ==
    /\ pc = "generate"
    /\ \/ doc \in MetadataDocs
       \/ \E n \in 0..MaxDocSegs : \E l \in [1..n -> DocSegments] :
              doc \in SegmentDocs(l)
    /\ mcf = <<>>
    /\ parsed = <<>>
    /\ EngineIdle /\ RenderIdle /\ StampIdle /\ LookupIdle
    /\ ServiceIdle

\* one call of generateMCF (lines 256-299) on the document
GenerateMCF ==
    /\ pc = "generate"
    /\ mcf' = generateMCF(doc)
    /\ pc' = "parse"
    /\ UNCHANGED <<serviceVars, doc, parsed, engineVars, renderVars,
                   stampVars, lookupVars>>

\* one call of parseMCF (lines 105-202) on the text
ParseMCF ==
    /\ pc = "parse"
    /\ parsed' = parseMCF(mcf)
    /\ pc' = "parsed"
    /\ UNCHANGED <<serviceVars, doc, mcf, engineVars, renderVars, stampVars,
                   lookupVars>>

NextRoundTrip == GenerateMCF \/ ParseMCF

SpecRoundTrip == InitRoundTrip /\ [][NextRoundTrip]_vars

-----------------------------------------------------------------------------
(* Inputs of parseMCF: texts with and without header, with malformed lines *)

MaxBodyLines == 3

FirstLines ==
    {HEADER \o <<" ">> \o DEFAULT_VERSION,
     HEADER,
     HEADER \o <<"X">>,
     <<" ">> \o HEADER \o <<" ">> \o DEFAULT_VERSION,
     <<"WEBVTT">>,
     <<"NOT", " ", "A", " ", "VALID", " ", "HEADER">>,
     <<>>}

CueLine ==
    <<"0", "0", ":", "0", "0", ":", "0", "1", ".", "0", "0", "0",
      " ", "-->", " ",
      "0", "0", ":", "0", "0", ":", "0", "2", ".", "0", "0", "0">>

BodyLines ==
    {<<>>,
     <<"NOTE">>,
     <<"NOTE", "\r">>,
     <<"TITLE", " ", "Up">>,
     <<"YEAR", " ", "abc">>,
     <<"START", " ", "0", "0", ":", "0", "0", ":", "0", "5", ".", "0", "0", "0">>,
     CueLine,
     <<"garbage", " ", "-->", " ", "text">>,
     <<"violence", "=", "high">>,
     <<"violence">>}

RECURSIVE JoinLines(_)
JoinLines(lines) ==
    IF Len(lines) = 1 THEN lines[1]
    ELSE lines[1] \o <<"\n">> \o JoinLines(Tail(lines))

InitParse ==
    /\ pc = "parse"
    /\ doc = <<>>
    /\ \E first \in FirstLines : \E n \in 0..MaxBodyLines :
          \E body \in [1..n -> BodyLines] : mcf = JoinLines(<<first>> \o body)
    /\ parsed = <<>>
    /\ EngineIdle /\ RenderIdle /\ StampIdle /\ LookupIdle
    /\ ServiceIdle

NextParse == ParseMCF

SpecParse == InitParse /\ [][NextParse]_vars

-----------------------------------------------------------------------------
(* Inputs of formatTimestamp: times up to and beyond 99:59:59.999 *)

StampHours == {0, 1, 23, 99, 100, 101, 123, 500}

StampMinutes == {0, 59}

StampSeconds == {0, 59}

StampMillis == {0, 1, 999}

InitTimestamp ==
    /\ pc = "format"
    /\ \E h \in StampHours, m \in StampMinutes, sec \in StampSeconds,
          milli \in StampMillis :
          stampMs = (h * 3600 + m * 60 + sec) * 1000 + milli
    /\ stampText = <<>>
    /\ stampBack = 0
    /\ EngineIdle /\ McfIdle /\ RenderIdle /\ LookupIdle
    /\ ServiceIdle

\* one call of formatTimestamp (lines 243-250)
FormatTimestamp ==
    /\ pc = "format"
    /\ stampText' = formatTimestamp(stampMs)
    /\ pc' = "formatted"
    /\ UNCHANGED <<serviceVars, stampMs, stampBack, engineVars, mcfVars,
                   renderVars, lookupVars>>

\* one call of parseTimestamp (lines 227-237) on the formatted text
ParseTimestamp ==
    /\ pc = "formatted"
    /\ stampBack' = parseTimestamp(stampText)
    /\ pc' = "stamped"
    /\ UNCHANGED <<serviceVars, stampMs, stampText, engineVars, mcfVars,
                   renderVars, lookupVars>>

NextTimestamp == FormatTimestamp \/ ParseTimestamp

SpecTimestamp == InitTimestamp /\ [][NextTimestamp]_vars

-----------------------------------------------------------------------------
(* Inputs of the taxonomy lookup: every flag of the table, flags it does not *)
(* have, and the empty flag                                                  *)

LookupFlags ==
    {<<name>> : name \in DOMAIN CATEGORIES}
    \cup {<<"zombies">>, <<"smoking">>, <<"Violence">>, <<>>}
    \cup {<<name>> : name \in ObjectPrototypeKeys}

InitLookup ==
    /\ pc = "lookup"
    /\ lookupFlag \in LookupFlags
    /\ lookupParent = <<>>
    /\ EngineIdle /\ McfIdle /\ RenderIdle /\ StampIdle
    /\ ServiceIdle

\* parseFilterLine (lines 207-221) on the line flag=high: the parentCategory
\* of line 216
ResolveParent ==
    /\ pc = "lookup"
    /\ lookupParent' =
           parseFilterLine(lookupFlag \o <<"=", "high">>)[1].parentCategory
    /\ pc' = "resolved"
    /\ UNCHANGED <<serviceVars, lookupFlag, engineVars, mcfVars, renderVars,
                   stampVars>>

NextLookup == ResolveParent

SpecLookup == InitLookup /\ [][NextLookup]_vars

-----------------------------------------------------------------------------
(* The store of one title under requests: contributions over HTTP and from  *)
(* the command line, starting without a file                                *)

MaxRequests == 3

StoreImdbId == "tt0133093"

\* times of a contribution: from 0, from later, end before start, and empty
ContributionSpans == {<<0, 1000>>, <<1400, 2000>>, <<2600, 100>>, <<1000, 1000>>}

\* request bodies of POST /api/contribute: a parent category and a flag,
\* severities of the enumeration and outside it
ContributionBodies ==
    {[startMs |-> span[1], endMs |-> span[2], category |-> category,
      subcategory |-> Undefined, severity |-> severity, channel |-> Undefined,
      comment |-> Undefined, contributor |-> Undefined] :
        span \in ContributionSpans,
        category \in {"violence", "punching"},
        severity \in {"high", "low", "extreme"}}

InvertedCueLine ==
    <<"0", "0", ":", "0", "0", ":", "0", "2", ".", "0", "0", "0",
      " ", "-->", " ",
      "0", "0", ":", "0", "0", ":", "0", "1", ".", "0", "0", "0">>

\* annotation texts to import: a cue, a cue with a flag of the taxonomy, a
\* cue that ends before it starts, and a text without header
ImportTexts ==
    {JoinLines(<<HEADER \o <<" ">> \o DEFAULT_VERSION, <<>>, CueLine,
                 <<"violence", "=", "high">>, <<>> >>),
     JoinLines(<<HEADER \o <<" ">> \o DEFAULT_VERSION, <<>>, CueLine,
                 <<"punching", "=", "low">>, <<>> >>),
     JoinLines(<<HEADER \o <<" ">> \o DEFAULT_VERSION, <<>>, InvertedCueLine,
                 <<"violence", "=", "high">>, <<>> >>),
     <<"WEBVTT">>}

\* times typed at the prompts of the command line tool: two of the form
\* MM:SS and one mistyped
TypedTimes == {<<"0", ":", "0", "1">>, <<"0", ":", "0", "2">>, <<"0", ":", "x">>}

TypedAnswers ==
    {[startTimeStr |-> from, endTimeStr |-> to, category |-> "violence",
      severity |-> "high", channel |-> "", comment |-> "", contributor |-> ""] :
        from \in TypedTimes, to \in TypedTimes}

InitStore ==
    /\ pc = "serving"
    /\ dataFile = NoFile
    /\ clock = 0
    /\ request = <<>>
    /\ response = <<>>
    /\ EngineIdle /\ McfIdle /\ RenderIdle /\ StampIdle /\ LookupIdle
    /\ ConvertIdle /\ VoteIdle

\* what a handler that only writes leaves alone
WriteFrame ==
    UNCHANGED <<pc, engineVars, mcfVars, renderVars, stampVars, lookupVars,
                convertVars, voteVars>>

\* the request asked is served next, from the file as it is now
Serve(asked, outcome) ==
    /\ request' = asked
    /\ dataFile' = outcome.file
    /\ response' = outcome.answer
    /\ clock' = clock + 1

\* one POST /api/contribute/:imdbId
PostContribute ==
    /\ clock < MaxRequests
    /\ \E body \in ContributionBodies :
           Serve([route |-> "POST /api/contribute/:imdbId", body |-> body],
                 postContribute(dataFile, StoreImdbId, body, clock + 1))
    /\ WriteFrame

\* one POST /api/contribute/:imdbId/mcf
PostContributeMcf ==
    /\ clock < MaxRequests
    /\ \E text \in ImportTexts :
           Serve([route |-> "POST /api/contribute/:imdbId/mcf", body |-> text],
                 postContributeMcf(dataFile, StoreImdbId, text, clock + 1))
    /\ WriteFrame

\* one run of contribute.js add
CliAdd ==
    /\ clock < MaxRequests
    /\ \E typed \in TypedAnswers :
           Serve([command |-> "add", typed |-> typed],
                 cliAddSegment(dataFile, StoreImdbId, typed, clock + 1))
    /\ WriteFrame

\* one run of contribute.js import
CliImport ==
    /\ clock < MaxRequests
    /\ \E text \in ImportTexts :
           Serve([command |-> "import", text |-> text],
                 importMCF(dataFile, StoreImdbId, text, clock + 1))
    /\ WriteFrame

\* bodies of PUT /api/filters/:imdbId/metadata: each property given or not
FullMetadata == [title |-> "The Matrix", year |-> 1999, type |-> "movie"]

MetadataBodies ==
    {[name \in names |-> FullMetadata[name]] :
        names \in SUBSET DOMAIN FullMetadata}

\* one PUT /api/filters/:imdbId/metadata
PutMetadata ==
    /\ clock < MaxRequests
    /\ \E body \in MetadataBodies :
           Serve([route |-> "PUT /api/filters/:imdbId/metadata", body |-> body],
                 putMetadata(dataFile, StoreImdbId, body, clock + 1))
    /\ WriteFrame

\* thresholds of a reader's config for the category of the contributions
ReaderConfigs ==
    {[kind |-> "undefined"], ConfigObject([violence |-> "low"]),
     ConfigObject([violence |-> "high"])}

\* what a handler that only reads leaves alone
ReadFrame ==
    UNCHANGED <<pc, dataFile, threw, mcfVars, vtt, stampVars, lookupVars,
                convertVars, voteVars>>

\* one GET /api/skips/:imdbId/json
GetSkipsJson ==
    /\ clock < MaxRequests
    /\ \E config \in ReaderConfigs :
           /\ request' = [route |-> "GET /api/skips/:imdbId/json",
                          config |-> config]
           /\ filterData' = BoundFilterData(dataFile)
           /\ userConfig' = QueryConfig(config)
           /\ pushed' = PushedSkips(filterData', userConfig')
           /\ returned' = generateSkips(filterData', userConfig')
           /\ json' = getSkipsJson(dataFile, StoreImdbId, config, clock + 1)
           /\ response' = [status |-> 200, body |-> json']
    /\ clock' = clock + 1
    /\ ReadFrame

\* one subtitles request of the player
SubtitlesHandler ==
    /\ clock < MaxRequests
    /\ \E config \in ReaderConfigs :
           /\ request' = [handler |-> "subtitles", config |-> config]
           /\ filterData' = BoundFilterData(dataFile)
           /\ userConfig' = parseUserConfig(config)
           /\ pushed' = PushedSkips(filterData', userConfig')
           /\ returned' = generateSkips(filterData', userConfig')
           /\ response' = subtitlesHandler(dataFile, StoreImdbId, config)
    /\ clock' = clock + 1
    /\ json' = json
    /\ ReadFrame

NextStore ==
    \/ PostContribute \/ PostContributeMcf \/ CliAdd \/ CliImport
    \/ PutMetadata \/ GetSkipsJson \/ SubtitlesHandler

SpecStore == InitStore /\ [][NextStore]_vars

-----------------------------------------------------------------------------
(* Export of a title's stored segments as annotation text (GET               *)
(* /api/skips/:imdbId/mcf, routes.js:186-213) and import of that text        *)
(* (routes.js:268-269); the text fields of a stored segment are texts here   *)

MaxConvertSegs == 2

\* a stored segment
DBSegment(span, category, subcategory, severity, channel, comment) ==
    [startMs |-> span[1], endMs |-> span[2], category |-> <<category>>,
     subcategory |-> <<subcategory>>, severity |-> <<severity>>,
     channel |-> <<channel>>, comment |-> comment]

\* stored segments: the subcategory equal to the category, a flag of the
\* taxonomy under its parent, a flag the taxonomy does not have, and a flag
\* the taxonomy maps to another parent; with a channel and a comment
DBSegmentShapes ==
    {DBSegment(<<0, 1000>>, "violence", "violence", "high", "both", NullText),
     DBSegment(<<1400, 2000>>, "violence", "punching", "low", "both", NullText),
     DBSegment(<<0, 1000>>, "language", "language", "medium", "audio",
               <<"strong", " ", "words">>),
     DBSegment(<<3500, 4000>>, "nudity", "nudity", "low", "video", NullText),
     DBSegment(<<2000, 3000>>, "violence", "zombies", "high", "both", NullText),
     DBSegment(<<2000, 3000>>, "fear", "punching", "medium", "video", NullText)}

\* routes.js:194-206: the document built from the stored record
ExportDocument(title, imdbId, segments) ==
    [metadata |-> [title |-> title.title, year |-> title.year,
                   type |-> title.type,
                   imdb |-> <<"https://www.imdb.com/title/", imdbId, "/">>],
     markers |-> [start |-> 0, end |-> NullNumber],
     segments |-> dbToMCFSegments(segments)]

\* the stored title of the export
ExportTitle == [title |-> <<"Up">>, year |-> 2009, type |-> <<"movie">>]

InitConvert ==
    /\ pc = "export"
    /\ \E n \in 0..MaxConvertSegs : dbSegments \in [1..n -> DBSegmentShapes]
    /\ imported = <<>>
    /\ McfIdle
    /\ EngineIdle /\ RenderIdle /\ StampIdle /\ LookupIdle
    /\ StoreIdle /\ VoteIdle

\* one GET /api/skips/:imdbId/mcf: the document and the text sent
ExportMCF ==
    /\ pc = "export"
    /\ doc' = ExportDocument(ExportTitle, "tt1049413", dbSegments)
    /\ mcf' = generateMCF(doc')
    /\ pc' = "import"
    /\ UNCHANGED <<parsed, convertVars, engineVars, renderVars, stampVars,
                   lookupVars, storeVars, voteVars>>

\* parseMCF and mcfToDBSegments on the exported text (routes.js:268-269)
ImportMCF ==
    /\ pc = "import"
    /\ parsed' = parseMCF(mcf)
    /\ imported' = IF parsed'.threw THEN <<>>
                   ELSE mcfToDBSegments(parsed'.value.segments)
    /\ pc' = "imported"
    /\ UNCHANGED <<doc, mcf, dbSegments, engineVars, renderVars, stampVars,
                   lookupVars, storeVars, voteVars>>

NextConvert == ExportMCF \/ ImportMCF

SpecConvert == InitConvert /\ [][NextConvert]_vars

-----------------------------------------------------------------------------
(* Votes in PostgreSQL mode: calls of voteSegment by two visitors on two     *)
(* segments, interleaved at their awaits                                     *)

MaxVoteCalls == 3

Visitors == {"visitor_a", "visitor_b"}

VotedSegments == {"seg_a", "seg_b"}

VoteTypes == {"up", "down"}

InitVote ==
    /\ pc = "voting"
    /\ voteTable = {}
    /\ segmentTable = [id \in VotedSegments |-> [upvotes |-> 0, downvotes |-> 0]]
    /\ voteCalls = <<>>
    /\ EngineIdle /\ McfIdle /\ RenderIdle /\ StampIdle /\ LookupIdle
    /\ StoreIdle /\ ConvertIdle

VoteFrame ==
    UNCHANGED <<pc, engineVars, mcfVars, renderVars, stampVars, lookupVars,
                storeVars, convertVars>>

\* a call of voteSegment, which runs up to the await of line 198
CallVoteSegment ==
    /\ Len(voteCalls) < MaxVoteCalls
    /\ \E visitorId \in Visitors, segmentId \in VotedSegments,
          voteType \in VoteTypes :
           voteCalls' = Append(voteCalls,
                               [visitorId |-> visitorId,
                                segmentId |-> segmentId,
                                voteType |-> voteType,
                                at |-> "findUnique",
                                existingVote |-> <<>>,
                                result |-> <<>>])
    /\ UNCHANGED <<voteTable, segmentTable>>
    /\ VoteFrame

\* the query of lines 198-205 of one call is answered
FindExistingVote ==
    /\ \E c \in 1..Len(voteCalls) :
           /\ voteCalls[c].at = "findUnique"
           /\ voteCalls' =
                  [voteCalls EXCEPT
                      ![c].existingVote =
                          findUnique(voteTable, voteCalls[c].visitorId,
                                     voteCalls[c].segmentId),
                      ![c].at = "transaction"]
    /\ UNCHANGED <<voteTable, segmentTable>>
    /\ VoteFrame

\* one call goes on from line 207 to its return
CompleteVote ==
    /\ \E c \in 1..Len(voteCalls) :
           /\ voteCalls[c].at = "transaction"
           /\ LET outcome == FinishVote(voteTable, segmentTable, voteCalls[c])
              IN /\ voteTable' = outcome.table
                 /\ segmentTable' = outcome.segments
                 /\ voteCalls' = [voteCalls EXCEPT ![c].result = outcome.result,
                                                   ![c].at = "returned"]
    /\ VoteFrame

NextVote == CallVoteSegment \/ FindExistingVote \/ CompleteVote

SpecVote == InitVote /\ [][NextVote]_vars

-----------------------------------------------------------------------------
(* Properties of the skip generator *)

Done == pc = "done"

HasSegments(fd) == "segments" \in DOMAIN fd

SpansOf(list) == [i \in 1..Len(list) |-> <<list[i].startMs, list[i].endMs>>]

PushedIds == {pushed[k].id : k \in 1..Len(pushed)}

\* prefs[category] of the caller's map: Undefined when the map or the key is absent
PrefOf(uc, category) ==
    IF uc.kind = "object" /\ category \in DOMAIN uc.map
    THEN uc.map[category] ELSE Undefined

Rank == [low |-> 1, medium |-> 2, high |-> 3]

\* C1: the returned list holds no two distinct intervals i, j with
\* i.startMs < j.endMs and j.startMs < i.endMs.
C1_NonOverlap ==
    Done =>
        \A i, j \in 1..Len(returned) :
            i # j => ~(/\ returned[i].startMs < returned[j].endMs
                       /\ returned[j].startMs < returned[i].endMs)

\* a call that merged some segments and still returned several intervals
C1_Witness == Done /\ Len(returned) >= 2 /\ Len(returned) < Len(pushed)

\* C2: the returned intervals are in ascending startMs order and consecutive
\* intervals are more than 500 ms apart: next.startMs > previous.endMs + 500.
C2_SortedWithGap ==
    Done =>
        \A i \in 1..(Len(returned) - 1) :
            /\ returned[i].startMs <= returned[i + 1].startMs
            /\ returned[i + 1].startMs > returned[i].endMs + 500

\* two returned intervals exactly 501 ms apart
C2_Witness ==
    /\ Done
    /\ \E i \in 1..(Len(returned) - 1) :
           returned[i + 1].startMs = returned[i].endMs + 501

\* the retention rule as the claim states it
ShouldSurvive(segment) ==
    LET threshold == PrefOf(userConfig, segment.category)
    IN /\ threshold \in DOMAIN Rank
       /\ Rank[segment.severity] >= Rank[threshold]

\* C3: a segment (with a severity of the enumeration) survives the filter
\* step iff prefs[category] is low, medium or high and rank(severity) >=
\* rank(prefs[category]); an absent, off or unknown threshold drops it.
C3_FilterRule ==
    Done /\ HasSegments(filterData) =>
        \A i \in 1..Len(filterData.segments) :
            LET segment == filterData.segments[i]
            IN segment.severity \in DOMAIN Rank =>
                   (segment.id \in PushedIds <=> ShouldSurvive(segment))

\* a call that kept one segment and dropped another of the same, enabled,
\* category for its rank
C3_Witness ==
    /\ Done
    /\ HasSegments(filterData)
    /\ \E i, j \in 1..Len(filterData.segments) :
           LET a == filterData.segments[i]
               b == filterData.segments[j]
           IN /\ a.id \in PushedIds
              /\ b.id \notin PushedIds
              /\ b.severity \in DOMAIN Rank
              /\ a.category = b.category
              /\ PrefOf(userConfig, b.category) \in DOMAIN Rank

\* the walk of the claim over spans <<startMs, endMs>> in ascending order
RECURSIVE Walk(_, _)
Walk(sorted, kept) ==
    IF sorted = <<>> THEN kept
    ELSE LET s == Head(sorted)
             n == Len(kept)
         IN IF n > 0 /\ s[1] <= kept[n][2] + 500
            THEN Walk(Tail(sorted),
                      [kept EXCEPT ![n] =
                          <<kept[n][1],
                            IF s[2] > kept[n][2] THEN s[2] ELSE kept[n][2]>>])
            ELSE Walk(Tail(sorted), Append(kept, s))

\* C4: walking the retained segments in ascending startMs order, a segment
\* is merged into the previous kept interval iff its startMs <= that
\* interval's current endMs + 500, and merging sets endMs to the maximum;
\* [0,1000) and [1400,2000) give [0,2000); [0,1000) and [2000,3000) stay two;
\* a gap of exactly 500 merges and a gap of 501 does not.
C4_MergeRule ==
    Done =>
        /\ SpansOf(returned) = Walk(SpansOf(SortByStartMs(pushed)), <<>>)
        /\ SpansOf(pushed) = << <<0, 1000>>, <<1400, 2000>> >>
               => SpansOf(returned) = << <<0, 2000>> >>
        /\ SpansOf(pushed) = << <<0, 1000>>, <<2000, 3000>> >>
               => SpansOf(returned) = << <<0, 1000>>, <<2000, 3000>> >>
        /\ SpansOf(pushed) = << <<0, 1000>>, <<1500, 2000>> >>
               => SpansOf(returned) = << <<0, 2000>> >>
        /\ SpansOf(pushed) = << <<0, 1000>>, <<1501, 2000>> >>
               => SpansOf(returned) = << <<0, 1000>>, <<1501, 2000>> >>

\* a call in which an interval keeps the end of a longer segment when it
\* absorbs a shorter one, and then absorbs a segment exactly 500 ms later
C4_Witness ==
    /\ Done
    /\ SpansOf(pushed) = << <<0, 3000>>, <<1400, 2000>>, <<3500, 4000>> >>
    /\ SpansOf(returned) = << <<0, 4000>> >>

\* userConfig with the threshold of one category replaced
WithThreshold(uc, category, threshold) ==
    LET given == IF uc.kind = "object" THEN uc.map ELSE <<>>
    IN [kind |-> "object",
        map |-> [k \in DOMAIN given \cup {category} |->
                    IF k = category THEN threshold ELSE given[k]]]

\* filterData without the segments of one category
WithoutCategory(fd, category) ==
    IF HasSegments(fd)
    THEN [fd EXCEPT !.segments =
             SelectSeq(fd.segments, LAMBDA x : x.category # category)]
    ELSE fd

Covered(list, t) ==
    \E i \in 1..Len(list) : list[i].startMs <= t /\ t < list[i].endMs

\* the instants at which the coverage of a list can change
Endpoints(list) ==
    {list[i].startMs : i \in 1..Len(list)} \cup {list[i].endMs : i \in 1..Len(list)}

\* every instant covered by strict is covered by lax
Includes(lax, strict) ==
    \A t \in Endpoints(lax) \cup Endpoints(strict) :
        Covered(strict, t) => Covered(lax, t)

StricterThan ==
    [low |-> {"medium", "high", "off"}, medium |-> {"high", "off"},
     high |-> {"off"}]

\* C5: with the other thresholds fixed, raising the threshold of a category
\* along low -> medium -> high -> off never adds a covered instant, and with
\* the category off none of its segments contributes to the output.
C5_Monotone ==
    Done =>
        \A c \in {"violence", "language"} :
            LET t == PrefOf(userConfig, c)
            IN /\ t \in DOMAIN StricterThan =>
                      \A stricter \in StricterThan[t] :
                          Includes(returned,
                                   generateSkips(filterData,
                                       WithThreshold(userConfig, c, stricter)))
               /\ t = "off" =>
                      /\ \A k \in 1..Len(pushed) : pushed[k].category # c
                      /\ returned =
                             generateSkips(WithoutCategory(filterData, c),
                                           userConfig)

\* a call with an enabled threshold whose result merges segments and covers
\* strictly more than the result at threshold high
C5_Witness ==
    /\ Done
    /\ PrefOf(userConfig, "violence") = "low"
    /\ Len(returned) < Len(pushed)
    /\ ~Includes(generateSkips(filterData,
                               WithThreshold(userConfig, "violence", "high")),
                 returned)

\* C6: a segment whose severity is unset is retained under every enabled
\* threshold (low, medium, high) of its category.
C6_UnsetSeverityRetained ==
    Done /\ HasSegments(filterData) =>
        \A i \in 1..Len(filterData.segments) :
            LET segment == filterData.segments[i]
            IN /\ segment.severity = Undefined
               /\ PrefOf(userConfig, segment.category) \in DOMAIN Rank
               => segment.id \in PushedIds

NoSegmentList(fd) ==
    IF HasSegments(fd) THEN fd.segments = <<>> ELSE fd.kind \in {"null", "object"}

\* C7: generateSkips never raises; an empty or absent segment list gives the
\* empty list for any preferences, and absent preferences give the empty
\* list for any segment list.
C7_Total ==
    Done =>
        /\ ~threw
        /\ NoSegmentList(filterData) => returned = <<>>
        /\ userConfig.kind = "undefined" => returned = <<>>

\* a call without preferences on a title that has segments
C7_Witness ==
    /\ Done
    /\ userConfig.kind = "undefined"
    /\ HasSegments(filterData)
    /\ Len(filterData.segments) > 0

\* the retention rule with the category normalized through the taxonomy
ShouldSurviveNormalized(segment) ==
    LET parent == IF segment.category \in DOMAIN CATEGORIES
                  THEN CATEGORIES[segment.category] ELSE segment.category
        threshold == PrefOf(userConfig, parent)
    IN /\ threshold \in DOMAIN Rank
       /\ Rank[segment.severity] >= Rank[threshold]

\* C15: a segment whose category is a fine-grained flag of the taxonomy
\* (punching, which maps to violence) is retained or dropped according to
\* the user's threshold for the parent category.
C15_CategoryNormalized ==
    Done /\ HasSegments(filterData) =>
        \A i \in 1..Len(filterData.segments) :
            LET segment == filterData.segments[i]
            IN /\ segment.category \in DOMAIN CATEGORIES
               /\ segment.severity \in DOMAIN Rank
               => (segment.id \in PushedIds
                      <=> ShouldSurviveNormalized(segment))

LowerSettings ==
    [low |-> {"off"}, medium |-> {"low", "off"},
     high |-> {"medium", "low", "off"}]

\* C21: for any title and category, the time skipped with the category at
\* a setting includes the time skipped at every lower setting (off < low <
\* medium < high), and the setting high skips every segment of the category.
C21_HigherSkipsMore ==
    Done =>
        \A c \in {"violence", "language"} :
            LET t == PrefOf(userConfig, c)
            IN /\ t \in DOMAIN LowerSettings =>
                      \A lower \in LowerSettings[t] :
                          Includes(returned,
                                   generateSkips(filterData,
                                       WithThreshold(userConfig, c, lower)))
               /\ t = "high" /\ HasSegments(filterData) =>
                      \A i \in 1..Len(filterData.segments) :
                          LET segment == filterData.segments[i]
                          IN /\ segment.category = c
                             /\ segment.severity \in DOMAIN Rank
                             => segment.id \in PushedIds

\* the segment lies entirely within the interval
Within(segment, interval) ==
    interval.startMs <= segment.startMs /\ segment.endMs <= interval.endMs

\* the retained segments that lie within the i-th resolved interval
Absorbed(i) == {k \in 1..Len(pushed) : Within(pushed[k], returned[i])}

\* C25: every segment that passes the threshold filter lies entirely within
\* exactly one interval of the resolved list, and each resolved interval
\* starts at the least startMs and ends at the greatest endMs of the
\* retained segments it absorbed.
C25_MergeKeepsSkipTime ==
    Done =>
        /\ \A k \in 1..Len(pushed) :
               Cardinality({i \in 1..Len(returned) :
                               Within(pushed[k], returned[i])}) = 1
        /\ \A i \in 1..Len(returned) :
               /\ Absorbed(i) # {}
               /\ \A k \in Absorbed(i) :
                      /\ returned[i].startMs <= pushed[k].startMs
                      /\ returned[i].endMs >= pushed[k].endMs
               /\ \E k \in Absorbed(i) : returned[i].startMs = pushed[k].startMs
               /\ \E k \in Absorbed(i) : returned[i].endMs = pushed[k].endMs

\* the orders in which a list of n segments can be returned
Orders(n) == {f \in [1..n -> 1..n] : \A i, j \in 1..n : f[i] = f[j] => i = j}

\* filterData with its segments in the order f
Reordered(fd, f) ==
    [fd EXCEPT !.segments = [i \in 1..Len(fd.segments) |-> fd.segments[f[i]]]]

C27_DerivedFieldsConsistent ==
    Done =>
        \A i \in 1..Len(returned) :
            /\ returned[i].duration = returned[i].endMs - returned[i].startMs
            /\ returned[i].startTime = formatTimeForDisplay(returned[i].startMs)
            /\ returned[i].endTime = formatTimeForDisplay(returned[i].endMs)

\* a call that merged three segments into one interval and moved its end,
\* and with it its displayed end time, twice
C27_Witness ==
    /\ Done
    /\ SpansOf(pushed) = << <<0, 1000>>, <<1400, 2000>>, <<2000, 3000>> >>
    /\ Len(returned) = 1
    /\ returned[1].endTime = "0:03"
    /\ returned[1].duration = 3000

-----------------------------------------------------------------------------
(* Properties of the MCF parser and generator *)

Parsed == pc = "parsed"

DocMetadata(d) == IF "metadata" \in DOMAIN d THEN d.metadata ELSE <<>>

\* C8: for a document whose segments each carry a filter and whose values
\* are valid, parse(generate(d)).segments equals d.segments: the same
\* segments in the same order, with the same times and filters.
C8_SegmentsRoundTrip ==
    Parsed => ~parsed.threw /\ parsed.value.segments = doc.segments

\* the numbers of the metadata are positive
PositiveNumbers(metadata) ==
    \A k \in DOMAIN metadata \cap {"year", "season", "episode"} :
        metadata[k] > 0

\* C9: parse(generate(d)).metadata equals d.metadata field by field, for
\* title, year, type, season, episode, identifier, source and release: a
\* field that is set keeps its value and an unset field stays unset.
C9_MetadataRoundTrip ==
    Parsed /\ PositiveNumbers(DocMetadata(doc)) =>
        ~parsed.threw /\ parsed.value.metadata = DocMetadata(doc)

\* the first line of a text
FirstLine(text) ==
    LET k == IndexOf(text, <<"\n">>, 1)
    IN IF k = 0 THEN text ELSE SubSeq(text, 1, k - 1)

BeginsWithHeader(line) ==
    /\ Len(line) >= 3
    /\ line[1] = "WEBVTT" /\ line[2] = " " /\ line[3] = "MovieContentFilter"

\* C10: parseMCF raises its format error iff the first line of the text does
\* not begin with 'WEBVTT MovieContentFilter'; whatever the other lines hold,
\* a text with the header yields a document and no exception.
C10_RaisesIffNoHeader ==
    Parsed =>
        IF BeginsWithHeader(FirstLine(mcf))
        THEN /\ ~parsed.threw
             /\ DOMAIN parsed.value = {"version", "metadata", "markers", "segments"}
        ELSE /\ parsed.threw
             /\ parsed.error = "Invalid MCF format: missing header"

\* a text with a header without version and with malformed lines, parsed
C10_Witness ==
    /\ Parsed
    /\ ~parsed.threw
    /\ FirstLine(mcf) = HEADER
    /\ TextIncludes(mcf, <<"garbage", " ", "-->", " ", "text">>)
    /\ TextIncludes(mcf, <<"\n", "violence", "\n">>)

\* the lines of a text after its first line
BodyOf(text) ==
    LET lines == SplitLines(text)
    IN SubSeq(lines, 2, Len(lines))

WellFormedFilterLine == <<"violence", "=", "high">>

\* a body of blank lines, cue lines and well-formed filter lines only
PlainBody(body) ==
    \A i \in 1..Len(body) : body[i] \in {<<>>, CueLine, WellFormedFilterLine}

\* the cues of the claim, each as its number of filter lines: a cue line
\* opens a cue, the lines up to the next blank line or cue line are its filter
\* lines, and a cue counts when it has at least one; open is <<>> or <<n>>,
\* n the filter lines of the open cue so far
RECURSIVE CuesWithFilters(_, _, _)
CuesWithFilters(body, open, cues) ==
    LET flushed == IF open # <<>> /\ open[1] > 0 THEN Append(cues, open[1])
                   ELSE cues
    IN IF body = <<>> THEN flushed
       ELSE IF Head(body) = CueLine
       THEN CuesWithFilters(Tail(body), <<0>>, flushed)
       ELSE IF Head(body) = <<>>
       THEN CuesWithFilters(Tail(body), <<>>, flushed)
       ELSE CuesWithFilters(Tail(body),
                            IF open # <<>> THEN <<open[1] + 1>> ELSE open, cues)

\* C11: the segments of the parsed document are, in input order, exactly the
\* cues after the header line that are followed by at least one filter line
\* before the next blank line or the end of the text, also for a cue on the
\* line right after the header and a cue directly followed by another cue.
C11_CuesKept ==
    Parsed /\ ~parsed.threw /\ PlainBody(BodyOf(mcf)) =>
        LET segments == parsed.value.segments
        IN /\ [i \in 1..Len(segments) |-> Len(segments[i].filters)]
                 = CuesWithFilters(BodyOf(mcf), <<>>, <<>>)
           /\ \A i \in 1..Len(segments) :
                  segments[i].startTime = 1000 /\ segments[i].endTime = 2000

\* a cue line as the format writes it: HH:MM:SS.mmm --> HH:MM:SS.mmm
StrictCueLine(line) ==
    /\ Len(line) = 27
    /\ TimestampAt(line, 1)
    /\ SubSeq(line, 13, 15) = ARROW
    /\ TimestampAt(line, 16)

\* the <<start, end>> written in the well-formed cue lines of a body
WrittenTimes(body) ==
    {<<parseTimestamp(SubSeq(body[i], 1, 12)),
       parseTimestamp(SubSeq(body[i], 16, 27))>> :
        i \in {j \in 1..Len(body) : StrictCueLine(Trim(body[j]))}}

\* C24: a line with ' --> ' whose start or end is no timestamp opens no cue:
\* every segment of a parsed document has the times written in a
\* well-formed cue line of the text, and none has startTime = endTime = 0
\* from unparseable text.
C24_MalformedCueSkipped ==
    Parsed /\ ~parsed.threw =>
        \A i \in 1..Len(parsed.value.segments) :
            LET segment == parsed.value.segments[i]
            IN <<segment.startTime, segment.endTime>>
                   \in WrittenTimes(BodyOf(mcf))

Stamped == pc = "stamped"

\* C12: parseTimestamp(formatTimestamp(x)) = x for every non-negative
\* integer x, times of 100 hours and more included.
C12_TimestampRoundTrip == Stamped => stampBack = stampMs

\* C13: parseTimestamp(formatTimestamp(m)) = m for every integer m in
\* [0, 359999999].
C13_RoundTripBelow100h ==
    Stamped /\ stampMs <= 359999999 => stampBack = stampMs

\* 99:59:59.999, which is 359999999 ms, formatted and parsed back
C13_Witness ==
    /\ Stamped
    /\ stampMs = 359999999
    /\ stampBack = 359999999

Resolved == pc = "resolved"

ParentCategories ==
    {"nudity", "sex", "violence", "language", "drugs", "fear",
     "discrimination", "dispensable", "commercial"}

\* whether the table maps the flag
InTable(f) == Len(f) = 1 /\ f[1] \in DOMAIN CATEGORIES

\* C14: the lookup returns the mapped parent, one of the 9 parent categories,
\* for a flag of the table, and the flag itself for every other flag; each
\* of the 9 parent categories maps to itself.
C14_LookupTotal ==
    Resolved =>
        /\ InTable(lookupFlag) =>
               /\ lookupParent = <<CATEGORIES[lookupFlag[1]]>>
               /\ lookupParent[1] \in ParentCategories
        /\ ~InTable(lookupFlag) => lookupParent = lookupFlag
        /\ Len(lookupFlag) = 1 /\ lookupFlag[1] \in ParentCategories =>
               lookupParent = lookupFlag

BareCategoryLine == <<"violence">>

\* the body is blank up to a cue line at position i, whose first filter line
\* is a category alone and which ends with the text, a blank line or a
\* further filter line
BareCategoryCueAt(body, i) ==
    /\ i >= 2 /\ i + 1 <= Len(body)
    /\ \A k \in 1..(i - 1) : body[k] = <<>>
    /\ body[i] = CueLine
    /\ body[i + 1] = BareCategoryLine
    /\ i + 2 <= Len(body) => body[i + 2] \in {<<>>, WellFormedFilterLine}

\* C16: a filter line inside a cue that is a category alone (no '=') yields
\* a filter entry with that category, no severity and channel both, and the
\* entry counts as a filter line of the cue.
C16_CategoryAloneIsFilter ==
    Parsed /\ ~parsed.threw
           /\ (\E i \in 1..Len(BodyOf(mcf)) : BareCategoryCueAt(BodyOf(mcf), i))
    => /\ Len(parsed.value.segments) >= 1
       /\ LET filters == parsed.value.segments[1].filters
          IN /\ Len(filters) >= 1
             /\ filters[1].category = BareCategoryLine
             /\ filters[1].severity = UndefinedText
             /\ filters[1].channel = <<"both">>

\* the cue at position i is the last of the text
LastCueAt(body, i) ==
    \/ i + 1 = Len(body)
    \/ i + 2 = Len(body) /\ body[i + 2] = <<>>

\* C16 as the code has it: a filter line needs category and severity, so
\* every filter entry of a parsed document has a severity, and a cue whose
\* only filter line is a category alone is dropped.
C16_FilterNeedsSeverity ==
    Parsed /\ ~parsed.threw =>
        /\ \A k \in 1..Len(parsed.value.segments) :
               \A n \in 1..Len(parsed.value.segments[k].filters) :
                   parsed.value.segments[k].filters[n].severity # UndefinedText
        /\ \A i \in 1..Len(BodyOf(mcf)) :
               BareCategoryCueAt(BodyOf(mcf), i) /\ LastCueAt(BodyOf(mcf), i)
               => parsed.value.segments = <<>>

\* a parsed text whose only cue has a category alone as its filter line
C16_Witness ==
    /\ Parsed
    /\ ~parsed.threw
    /\ BareCategoryCueAt(BodyOf(mcf), 2)
    /\ Len(BodyOf(mcf)) = 3
    /\ parsed.value.segments = <<>>

Generated == pc \in {"parse", "parsed"}

\* a NOTE line directly followed by a blank line
EmptyNoteBlock == <<"NOTE", "\n", "\n">>

\* C17: generateMCF never emits an empty NOTE block: the metadata block only
\* with at least one emitted field set, the markers block only with at least
\* one of the start and end markers set.
C17_NoEmptyNote == Generated => ~TextIncludes(mcf, EmptyNoteBlock)

-----------------------------------------------------------------------------
(* Properties of the renderers *)

\* the lines of the VTT text after its four header lines and the blank line
VttBody ==
    LET lines == SplitLines(vtt)
    IN SubSeq(lines, 6, Len(lines))

\* the value of a text that reads dd:dd:dd.ddd and nothing else, -1 for any
\* other text
StrictStamp(t) ==
    IF Len(t) = 12 /\ TimestampAt(t, 1) THEN parseTimestamp(t) ELSE -1

\* the block that starts at line n of the body: its identifier line, the
\* two times of its timing line, and whether a blank line ends it
BlockAt(body, n) ==
    LET times == Split(body[n + 1], ARROW)
    IN [id |-> body[n],
        start |-> IF Len(times) = 2 THEN StrictStamp(times[1]) ELSE -1,
        end |-> IF Len(times) = 2 THEN StrictStamp(times[2]) ELSE -1,
        closed |-> body[n + 3] = <<>>]

RECURSIVE TotalLength(_)
TotalLength(list) ==
    IF list = <<>> THEN 0
    ELSE (Head(list).endMs - Head(list).startMs) + TotalLength(Tail(list))

\* C19: in the JSON payload built from a returned list, totalSkips is the
\* number of intervals in skips and totalSkipTime the sum over them of
\* endMs - startMs, also when intervals come from merging several segments.
C19_JsonTotals ==
    pc = "json" =>
        /\ json.skips = returned
        /\ json.totalSkips = Len(json.skips)
        /\ json.totalSkipTime = TotalLength(json.skips)

\* a payload whose one interval is merged from two segments and is longer
\* than either
C19_Witness ==
    /\ pc = "json"
    /\ Len(pushed) = 2
    /\ json.totalSkips = 1
    /\ \A i \in 1..2 :
           json.totalSkipTime > pushed[i].endMs - pushed[i].startMs

-----------------------------------------------------------------------------
(* Properties of the store under requests *)

\* the segments the store holds for the title
StoredSegments ==
    IF dataFile.kind = "object" /\ "segments" \in DOMAIN dataFile
    THEN dataFile.segments ELSE <<>>

IsContribution ==
    "route" \in DOMAIN request /\ request.route = "POST /api/contribute/:imdbId"

\* a contribution whose fields are all of the data model
ValidContribution(body) ==
    /\ body.startMs >= 0
    /\ body.endMs > body.startMs
    /\ body.category \in VALID_CATEGORIES
    /\ body.severity \in DOMAIN Rank

\* C22: after any sequence of contributions every stored segment has
\* endMs > startMs; a contribution with endMs <= startMs is answered with an
\* error and stores nothing, and a valid one, also from startMs 0, is accepted.
C22_StoredSegmentsValid ==
    /\ \A i \in 1..Len(StoredSegments) :
           /\ StoredSegments[i].startMs >= 0
           /\ StoredSegments[i].endMs > StoredSegments[i].startMs
    /\ IsContribution =>
           /\ request.body.endMs <= request.body.startMs
                  => response.status = 400
           /\ ValidContribution(request.body) => response.status = 201

\* whether the reader's threshold for the segment's category is met
ThresholdMet(segment, uc) ==
    LET threshold == PrefOf(uc, segment.category)
    IN /\ threshold \in DOMAIN Rank
       /\ segment.severity \in DOMAIN Rank
       /\ Rank[segment.severity] >= Rank[threshold]

\* the store holds a segment that the preferences uc ask to skip
HasApplicableSegment(uc) ==
    \E i \in 1..Len(StoredSegments) : ThresholdMet(StoredSegments[i], uc)

IsSkipsRequest ==
    "route" \in DOMAIN request /\ request.route = "GET /api/skips/:imdbId/json"

IsSubtitlesRequest == "handler" \in DOMAIN request

\* C23: when the store holds, for the title, a segment whose category
\* threshold in the reader's preferences is met, generateSkips returns a
\* non-empty list, GET /api/skips/:imdbId/json answers totalSkips >= 1 and
\* the subtitles handler returns its two tracks.
C23_SkipsFromStoredSegments ==
    /\ IsSkipsRequest /\ HasApplicableSegment(userConfig) =>
           /\ returned # <<>>
           /\ response.body.totalSkips >= 1
    /\ IsSubtitlesRequest /\ HasApplicableSegment(userConfig) =>
           /\ returned # <<>>
           /\ Len(response.subtitles) = 2

\* the request served last is a PUT of metadata
IsMetadataRequest ==
    "route" \in DOMAIN request
        /\ request.route = "PUT /api/filters/:imdbId/metadata"

\* the file holds the record of a title with its list of segments
HoldsTitle(file) == file.kind = "object" /\ "segments" \in DOMAIN file

-----------------------------------------------------------------------------
(* Properties of the export and import of stored segments *)

Imported == pc = "imported"

\* the fields of a stored segment that the claim compares
Compared(segment) ==
    <<segment.startMs, segment.endMs, segment.category, segment.severity,
      segment.channel, segment.comment>>

\* C28: exporting stored segments to annotation text and importing the text
\* yields one segment per exported segment with the same startMs, endMs,
\* category, severity, channel and comment, also when the subcategory is a
\* flag the taxonomy does not map or maps to another parent.
C28_ExportImportRoundTrip ==
    Imported =>
        /\ Len(imported) = Len(dbSegments)
        /\ \A i \in 1..Len(imported) :
               Compared(imported[i]) = Compared(dbSegments[i])

-----------------------------------------------------------------------------
(* Properties of the votes *)

\* the number of vote rows of a type for a segment
VoteCount(table, segmentId, voteType) ==
    Cardinality({row \in table :
                    row.segmentId = segmentId /\ row.voteType = voteType})

\* at most one row per (visitor, segment), and the counters of every segment
\* equal the numbers of its rows
VotesConsistent(table, segments) ==
    /\ \A visitorId \in Visitors, segmentId \in VotedSegments :
           Cardinality(VoteRows(table, visitorId, segmentId)) <= 1
    /\ \A segmentId \in VotedSegments :
           /\ segments[segmentId].upvotes = VoteCount(table, segmentId, "up")
           /\ segments[segmentId].downvotes
                  = VoteCount(table, segmentId, "down")

\* the call that returns in this step, as a set of at most one index
Returning ==
    {c \in 1..Len(voteCalls) :
        voteCalls[c].at # "returned" /\ voteCalls'[c].at = "returned"}

\* C29: after any interleaving of voteSegment calls there is at most one
\* vote row per (visitor, segment) and the counters of each segment equal
\* the numbers of its rows of type up and down; a call that returns
\* already_voted changes neither rows nor counters, and a call that
\* changes a vote moves exactly one count from one counter to the other.
C29_VotesConsistent ==
    [][/\ VotesConsistent(voteTable', segmentTable')
       /\ \A c \in Returning :
              LET call == voteCalls'[c]
                  before == segmentTable[call.segmentId]
                  after == segmentTable'[call.segmentId]
              IN /\ "reason" \in DOMAIN call.result =>
                        voteTable' = voteTable /\ segmentTable' = segmentTable
                 /\ "changed" \in DOMAIN call.result =>
                        /\ after.upvotes + after.downvotes
                               = before.upvotes + before.downvotes
                        /\ after.upvotes - before.upvotes \in {1, -1}]_vars

====
